---- MODULE Spec2Model ----
(***************************************************************************)
(* A model of the Domain worker of src/flow/domain/mod.rs: the dispatch of *)
(* messages through the local nodes, the buffer that orders transactions   *)
(* and migration barriers by timestamp, and the replay of state.           *)
(***************************************************************************)
EXTENDS Integers, Sequences, FiniteSets, TLC

VARIABLES
    nodes,                  \* Domain.nodes: local index -> node descriptor
    state,                  \* Domain.state: local index -> State, materialized nodes only
    buffered_transactions,  \* Domain.buffered_transactions: timestamp -> entry
    ingress_from_base,      \* Domain.ingress_from_base: base -> count
    ts,                     \* Domain.ts
    not_ready,              \* Domain.not_ready
    replaying_to,           \* Domain.replaying_to: Option<(target, buffered)>
    rx,                     \* the live message channel (sent, not yet received)
    panicked,               \* the worker thread has aborted
    acks,                   \* how many () each migration ack channel has received
    calls,                  \* what the last handler did, in order
    dispatched,             \* how often transactional_dispatch has run for each timestamp
    applied,                \* the keys of the entries apply_transactions has removed, in order
    replay,                 \* the Replay command the worker is in, or was in last
    replay_sent,            \* what that command has sent on its ack and tx, in order
    closed,                 \* the channels of the worker whose senders are all dropped
    last_send               \* the last call of PacketSender::send and what it did

vars == <<nodes, state, buffered_transactions, ingress_from_base, ts, not_ready,
          replaying_to, rx, panicked, acks, calls, dispatched, applied, replay,
          replay_sent, closed, last_send>>

-----------------------------------------------------------------------------
(* Bounds of the model. *)

\* the largest timestamp the environment uses
MaxTs == 2
\* the most fragments held in the transaction buffer at a time
MaxFrag == 2
\* the capacity of the live message channel
MaxRx == 1
\* the most updates sent to the domain while a state is replayed
MaxUpdates == 4
\* the rows of a chunk of a replay (1000 in the source)
ChunkSize == 2
\* the batches sent on the channel of one ReplayThrough
MaxBatches == 2

\* the ts the domain is constructed with
InitTs == -1

Timestamps == (InitTs + 1)..MaxTs
Bases == {"A", "B"}

-----------------------------------------------------------------------------
(* Option<T> is a sequence of at most one element. *)

None == <<>>
Some(x) == <<x>>
is_some(o) == o # <<>>
is_none(o) == o = <<>>
unwrap(o) == o[1]

(* A HashMap whose keys are strings is a function on the set of its keys. *)
EmptyMap == [k \in {} |-> {}]
insert(map, k, v) == [x \in (DOMAIN map) \cup {k} |-> IF x = k THEN v ELSE map[x]]
remove(map, k) == [x \in (DOMAIN map) \ {k} |-> map[x]]

-----------------------------------------------------------------------------
(* The nodes.  The domain is constructed with the ingress n0 and two paths *)
(* from it to the reader n2: through the base n1, which passes every       *)
(* record on, and through the filter g.                                    *)

NodeOrder == <<"n0", "n1", "g", "n2">>
Nodes == {NodeOrder[i] : i \in 1..Len(NodeOrder)}

Rows == {<<"a", "x">>, <<"b", "y">>}
\* the rows the filter g lets through
Kept == {<<"b", "y">>}

Descriptor(children, op, output) ==
    [children |-> children, op |-> op, output |-> output]

InitNodes ==
    [n \in Nodes |->
        CASE n = "n0" -> Descriptor(<<"n1", "g">>, "ingress", FALSE)
          [] n = "n1" -> Descriptor(<<"n2">>, "base", FALSE)
          [] n = "g"  -> Descriptor(<<"n2">>, "filter", FALSE)
          [] n = "n2" -> Descriptor(<<>>, "reader", TRUE)]

-----------------------------------------------------------------------------
(* Records, State and Message.                                              *)

Positive(r) == [pos |-> TRUE, row |-> r]
Negative(r) == [pos |-> FALSE, row |-> r]

\* State: the rows of a materialized node, by the value of the key column
new_state(pkey, base) == [pkey |-> pkey, base |-> base, rows |-> EmptyMap]
key_of(s, r) == r[s.pkey + 1]
rows_at(s, k) == IF k \in DOMAIN s.rows THEN s.rows[k] ELSE <<>>

state_insert(s, r) ==
    [s EXCEPT !.rows = insert(s.rows, key_of(s, r), Append(rows_at(s, key_of(s, r)), r))]

first_index(rs, r) ==
    IF \E i \in 1..Len(rs) : rs[i] = r
    THEN CHOOSE i \in 1..Len(rs) : rs[i] = r /\ \A j \in 1..(i - 1) : rs[j] # r
    ELSE 0

without(rs, i) == [j \in 1..(Len(rs) - 1) |-> IF j < i THEN rs[j] ELSE rs[j + 1]]

state_remove(s, r) ==
    LET k == key_of(s, r)
        rs == rows_at(s, k)
        i == first_index(rs, r)
    IN IF i = 0 THEN s
       ELSE IF Len(rs) = 1 THEN [s EXCEPT !.rows = remove(s.rows, k)]
       ELSE [s EXCEPT !.rows = insert(s.rows, k, without(rs, i))]

RECURSIVE apply_records(_, _)
apply_records(s, data) ==
    IF data = <<>> THEN s
    ELSE apply_records(IF Head(data).pos THEN state_insert(s, Head(data).row)
                       ELSE state_remove(s, Head(data).row),
                       Tail(data))

Message(from, to, data, mts, token) ==
    [from |-> from, to |-> to, data |-> data, ts |-> mts, token |-> token]

-----------------------------------------------------------------------------
(* The domain as one value, so that the methods of Domain are operators    *)
(* from a domain to a domain.                                              *)

Self ==
    [nodes |-> nodes, state |-> state,
     buffered_transactions |-> buffered_transactions,
     ingress_from_base |-> ingress_from_base, ts |-> ts,
     not_ready |-> not_ready, replaying_to |-> replaying_to,
     panicked |-> panicked, acks |-> acks, calls |-> <<>>,
     dispatched |-> dispatched, applied |-> applied, replay_sent |-> replay_sent]

\* The worker has handled an input and the domain is d.  When the handler has
\* panicked the thread is gone and the domain with it: what is left is what the
\* handler did before.
Becomes(d) ==
    IF d.panicked
    THEN /\ panicked' = TRUE
         /\ calls' = d.calls
         /\ acks' = d.acks
         /\ dispatched' = d.dispatched
         /\ applied' = d.applied
         /\ replay_sent' = d.replay_sent
         /\ UNCHANGED <<nodes, state, buffered_transactions, ingress_from_base, ts,
                        not_ready, replaying_to>>
    ELSE
    /\ nodes' = d.nodes
    /\ state' = d.state
    /\ buffered_transactions' = d.buffered_transactions
    /\ ingress_from_base' = d.ingress_from_base
    /\ ts' = d.ts
    /\ not_ready' = d.not_ready
    /\ replaying_to' = d.replaying_to
    /\ panicked' = d.panicked
    /\ acks' = d.acks
    /\ calls' = d.calls
    /\ dispatched' = d.dispatched
    /\ applied' = d.applied
    /\ replay_sent' = d.replay_sent

Called(d, c) == [d EXCEPT !.calls = Append(@, c)]

\* a failed assert!, unwrap, index or unreachable!: the thread aborts
panic(d, why) == [Called(d, [ev |-> "panic", why |-> why]) EXCEPT !.panicked = TRUE]

-----------------------------------------------------------------------------
(* process of a node: what it returns, by the operator of the node, and    *)
(* the records it leaves in the state of a materialized node.              *)

keep(data) == SelectSeq(data, LAMBDA r : r.row \in Kept)

process_result(op, m) ==
    CASE op = "reader" -> None
      [] op = "filter" -> IF keep(m.data) = <<>> THEN None
                          ELSE Some([data |-> keep(m.data), ts |-> m.ts, token |-> None])
      [] OTHER -> Some([data |-> m.data, ts |-> m.ts, token |-> None])

process(d, n, m, enable_output, via) ==
    LET u == process_result(d.nodes[n].op, m)
        seen == CASE d.nodes[n].op = "reader" -> m.data
                  [] is_some(u) -> unwrap(u).data
                  [] OTHER -> <<>>
        d1 == Called(d, [ev |-> "process", node |-> n, from |-> m.from, data |-> m.data,
                         ts |-> m.ts, enable_output |-> enable_output, via |-> via])
    IN [d |-> IF n \in DOMAIN d.state
              THEN [d1 EXCEPT !.state[n] = apply_records(@, seen)]
              ELSE d1,
        u |-> u]

-----------------------------------------------------------------------------
(* Domain::dispatch.  The result is the domain afterwards and the map from *)
(* output node to the records collected for it.                            *)

\* the later entry replaces the earlier one
merge_replaces(a, b) == b @@ a

merge(a, b) ==
    [k \in (DOMAIN a) \cup (DOMAIN b) |->
        (IF k \in DOMAIN a THEN a[k] ELSE <<>>) \o (IF k \in DOMAIN b THEN b[k] ELSE <<>>)]

never_not_ready(d, n) == FALSE

\* !not_ready.is_empty() && not_ready.contains(n)
is_not_ready(d, n) == d.not_ready # {} /\ n \in d.not_ready

RECURSIVE dispatch(_, _, _)
RECURSIVE dispatch_children(_, _, _, _, _, _)

\* with the readiness check before the cursor check
dispatch_ready_first(d, m, enable_output) ==
    LET me == m.to IN
    IF is_not_ready(d, me)
    THEN [d |-> Called(d, [ev |-> "dropped", node |-> me, from |-> m.from]),
          out |-> EmptyMap]
    ELSE IF is_some(d.replaying_to) /\ unwrap(d.replaying_to).target = me
    THEN [d |-> [Called(d, [ev |-> "buffered", node |-> me, from |-> m.from])
                    EXCEPT !.replaying_to =
                        Some([target |-> me,
                              buffered |-> Append(unwrap(d.replaying_to).buffered, m)])],
          out |-> EmptyMap]
    ELSE LET p == process(d, me, m, TRUE, "dispatch")
             u == IF is_some(m.ts) /\ is_none(p.u)
                  THEN Some([data |-> <<>>, ts |-> m.ts, token |-> None])
                  ELSE p.u
         IN IF is_none(u) THEN [d |-> p.d, out |-> EmptyMap]
            ELSE dispatch_children(p.d, me, 1, unwrap(u), enable_output, EmptyMap)

\* without the empty result for a message of a transaction
dispatch_stops(d, m, enable_output) ==
    LET me == m.to IN
    IF is_some(d.replaying_to) /\ unwrap(d.replaying_to).target = me
    THEN [d |-> [Called(d, [ev |-> "buffered", node |-> me, from |-> m.from])
                    EXCEPT !.replaying_to =
                        Some([target |-> me,
                              buffered |-> Append(unwrap(d.replaying_to).buffered, m)])],
          out |-> EmptyMap]
    ELSE IF is_not_ready(d, me)
    THEN [d |-> Called(d, [ev |-> "dropped", node |-> me, from |-> m.from]),
          out |-> EmptyMap]
    ELSE LET p == process(d, me, m, TRUE, "dispatch")
         IN IF is_none(p.u) THEN [d |-> p.d, out |-> EmptyMap]
            ELSE dispatch_children(p.d, me, 1, unwrap(p.u), enable_output, EmptyMap)

dispatch(d, m, enable_output) ==
    LET me == m.to IN
    IF is_some(d.replaying_to) /\ unwrap(d.replaying_to).target = me
    THEN [d |-> [Called(d, [ev |-> "buffered", node |-> me, from |-> m.from])
                    EXCEPT !.replaying_to =
                        Some([target |-> me,
                              buffered |-> Append(unwrap(d.replaying_to).buffered, m)])],
          out |-> EmptyMap]
    ELSE IF is_not_ready(d, me)
    THEN [d |-> Called(d, [ev |-> "dropped", node |-> me, from |-> m.from]),
          out |-> EmptyMap]
    ELSE LET p == process(d, me, m, TRUE, "dispatch")
             u == IF is_some(m.ts) /\ is_none(p.u)
                  THEN Some([data |-> <<>>, ts |-> m.ts, token |-> None])
                  ELSE p.u
         IN IF is_none(u) THEN [d |-> p.d, out |-> EmptyMap]
            ELSE dispatch_children(p.d, me, 1, unwrap(u), enable_output, EmptyMap)

\* the loop over the children of me, from the i-th on
dispatch_children(d, me, i, u, enable_output, output_messages) ==
    LET children == d.nodes[me].children IN
    IF i > Len(children) THEN [d |-> d, out |-> output_messages]
    ELSE IF enable_output \/ ~d.nodes[children[i]].output
    THEN LET r == dispatch(d, Message(me, children[i], u.data, u.ts, u.token),
                           enable_output)
         IN dispatch_children(r.d, me, i + 1, u, enable_output,
                              merge(output_messages, r.out))
    ELSE dispatch_children(d, me, i + 1, u, enable_output,
                           merge(output_messages, [k \in {children[i]} |-> u.data]))

-----------------------------------------------------------------------------
(* Domain::transactional_dispatch                                          *)

\* a call of dispatch from outside the loop of boot, with what it returns
dispatch_call(d, m, enable_output) ==
    LET r == dispatch(Called(d, [ev |-> "dispatch", m |-> m, enable_output |-> enable_output]),
                      m, enable_output)
    IN Called(r.d, [ev |-> "returned", out |-> r.out])

RECURSIVE dispatch_all(_, _, _)
dispatch_all(d, messages, egress_messages) ==
    IF messages = <<>> THEN [d |-> d, out |-> egress_messages]
    ELSE LET r == dispatch(d, Head(messages), FALSE)
         IN dispatch_all(r.d, Tail(messages), merge(egress_messages, r.out))

is_output(d, n) == d.nodes[n].output

\* the output nodes, in the order of the node table
outputs(d) == SelectSeq(NodeOrder, LAMBDA n : n \in DOMAIN d.nodes /\ is_output(d, n))

RECURSIVE feed_outputs(_, _, _, _)
feed_outputs(d, ns, egress_messages, mts) ==
    IF ns = <<>> \/ d.panicked THEN d
    ELSE LET n == Head(ns)
             data == IF n \in DOMAIN egress_messages THEN egress_messages[n] ELSE <<>>
             m == Message(n, n, data, mts, None)
         IN IF is_not_ready(d, m.to)
            THEN feed_outputs(Called(d, [ev |-> "skipped", node |-> n]),
                              Tail(ns), egress_messages, mts)
            ELSE LET p == process(d, n, m, TRUE, "output")
                 IN IF Len(d.nodes[n].children) # 0
                    THEN panic(p.d, "output node has children")
                    ELSE feed_outputs(p.d, Tail(ns), egress_messages, mts)

transactional_dispatch(d, messages) ==
    IF messages = <<>> THEN panic(d, "no messages")
    ELSE LET mts == messages[1].ts
             d0 == [Called(d, [ev |-> "transactional_dispatch", ts |-> unwrap(mts)[1],
                               bases |-> [i \in 1..Len(messages) |->
                                             unwrap(messages[i].ts)[2]]])
                       EXCEPT !.dispatched[unwrap(mts)[1]] = @ + 1]
             r == dispatch_all(d0, messages, EmptyMap)
         IN feed_outputs(r.d, outputs(r.d), r.out, mts)

-----------------------------------------------------------------------------
(* The transaction buffer.                                                 *)

Absent == [kind |-> "Absent"]
RemoteTransaction == [kind |-> "RemoteTransaction"]
Transaction(base, messages) == [kind |-> "Transaction", base |-> base, messages |-> messages]
MigrationStart(channel) == [kind |-> "MigrationStart", channel |-> channel]
MigrationEnd(counts) == [kind |-> "MigrationEnd", ingress_from_base |-> counts]

entry(d, k) ==
    IF k \in DOMAIN d.buffered_transactions THEN d.buffered_transactions[k] ELSE Absent

is_empty(buffer) == \A k \in DOMAIN buffer : buffer[k] = Absent

\* what is noted of the entry that apply_transactions removes
Removed(d, e) ==
    [ev |-> "removed", key |-> d.ts + 1, kind |-> e.kind,
     len |-> IF e.kind = "Transaction" THEN Len(e.messages) ELSE 0,
     need |-> IF e.kind = "Transaction" THEN d.ingress_from_base[e.base] ELSE 0]

\* the match on the removed entry
apply_entry(d, e) ==
    CASE e.kind = "RemoteTransaction" -> d
      [] e.kind = "Transaction" -> transactional_dispatch(d, e.messages)
      [] e.kind = "MigrationStart" ->
            [Called(d, [ev |-> "ack", channel |-> e.channel])
                EXCEPT !.acks[e.channel] = @ + 1]
      [] e.kind = "MigrationEnd" -> [d EXCEPT !.ingress_from_base = e.ingress_from_base]

advance_by_two(d) == [Called(d, [ev |-> "advance", from |-> d.ts]) EXCEPT !.ts = @ + 2]

advance_never(d) == Called(d, [ev |-> "advance", from |-> d.ts])

\* self.ts += 1
advance(d) == [Called(d, [ev |-> "advance", from |-> d.ts]) EXCEPT !.ts = @ + 1]

incomplete_never(d, e) == FALSE

incomplete_le(d, e) == Len(e.messages) <= d.ingress_from_base[e.base]

\* "we don't have all the messages for this timestamp"
incomplete(d, e) == Len(e.messages) < d.ingress_from_base[e.base]

RECURSIVE apply_transactions(_)

\* a Transaction whose base has no ingress count is held
apply_transactions_holds(d) ==
    IF d.panicked \/ is_empty(d.buffered_transactions) THEN d
    ELSE LET e == entry(d, d.ts + 1) IN
         IF e = Absent THEN d
         ELSE IF e.kind = "Transaction" /\ e.base \notin DOMAIN d.ingress_from_base
         THEN d
         ELSE IF e.kind = "Transaction" /\ incomplete(d, e)
         THEN d
         ELSE LET removed == [Called(d, Removed(d, e))
                                 EXCEPT !.buffered_transactions[d.ts + 1] = Absent,
                                        !.applied = Append(@, d.ts + 1)]
                  done == apply_entry(removed, e)
              IN IF done.panicked THEN done ELSE apply_transactions(advance(done))

\* one pass of the loop only
apply_transactions_once(d) ==
    IF d.panicked \/ is_empty(d.buffered_transactions) THEN d
    ELSE LET e == entry(d, d.ts + 1) IN
         IF e = Absent THEN d
         ELSE IF e.kind = "Transaction" /\ e.base \notin DOMAIN d.ingress_from_base
         THEN panic(d, "no ingress count for the base")
         ELSE IF e.kind = "Transaction" /\ incomplete(d, e)
         THEN d
         ELSE LET removed == [Called(d, Removed(d, e))
                                 EXCEPT !.buffered_transactions[d.ts + 1] = Absent,
                                        !.applied = Append(@, d.ts + 1)]
                  done == apply_entry(removed, e)
              IN IF done.panicked THEN done ELSE advance(done)

apply_transactions(d) ==
    IF d.panicked \/ is_empty(d.buffered_transactions) THEN d
    ELSE LET e == entry(d, d.ts + 1) IN
         IF e = Absent THEN d
         ELSE IF e.kind = "Transaction" /\ e.base \notin DOMAIN d.ingress_from_base
         THEN panic(d, "no ingress count for the base")
         ELSE IF e.kind = "Transaction" /\ incomplete(d, e)
         THEN d
         ELSE LET removed == [Called(d, Removed(d, e))
                                 EXCEPT !.buffered_transactions[d.ts + 1] = Absent,
                                        !.applied = Append(@, d.ts + 1)]
                  done == apply_entry(removed, e)
              IN IF done.panicked THEN done ELSE apply_transactions(advance(done))

\* the entry takes the base of the message pushed last
buffer_transaction_rebased(d, m) ==
    LET t == unwrap(m.ts)[1]
        base == unwrap(m.ts)[2]
        e == IF entry(d, t) = Absent THEN Transaction(base, <<>>) ELSE entry(d, t)
    IN IF e.kind # "Transaction" THEN panic(d, "unreachable")
       ELSE LET pushed == [d EXCEPT !.buffered_transactions[t] =
                                        Transaction(base, Append(e.messages, m))]
            IN IF t = d.ts + 1 THEN apply_transactions(pushed) ELSE pushed

buffer_transaction(d, m) ==
    LET t == unwrap(m.ts)[1]
        base == unwrap(m.ts)[2]
        e == IF entry(d, t) = Absent THEN Transaction(base, <<>>) ELSE entry(d, t)
    IN IF e.kind # "Transaction" THEN panic(d, "unreachable")
       ELSE LET pushed == [d EXCEPT !.buffered_transactions[t] =
                                        Transaction(e.base, Append(e.messages, m))]
            IN IF t = d.ts + 1 THEN apply_transactions(pushed) ELSE pushed

-----------------------------------------------------------------------------
(* Domain::replay_done and Domain::handle_control                          *)

replay_done_keeps(d, node) ==
    LET d1 == [Called(d, [ev |-> "replay_done", node |-> node])
                  EXCEPT !.replaying_to = None]
    IN IF is_none(d.replaying_to) THEN d1
       ELSE IF unwrap(d.replaying_to).target # node THEN panic(d1, "target is not node")
       ELSE IF unwrap(d.replaying_to).buffered # <<>> THEN panic(d1, "buffered is not empty")
       ELSE d1

replay_done(d, node) ==
    LET d1 == [Called(d, [ev |-> "replay_done", node |-> node])
                  EXCEPT !.not_ready = @ \ {node}, !.replaying_to = None]
    IN IF is_none(d.replaying_to) THEN d1
       ELSE IF unwrap(d.replaying_to).target # node THEN panic(d1, "target is not node")
       ELSE IF unwrap(d.replaying_to).buffered # <<>> THEN panic(d1, "buffered is not empty")
       ELSE d1

\* the node is added as a ready one
add_node_ready(d, addr, n, parents) ==
    [Called(d, [ev |-> "add_node", node |-> addr])
        EXCEPT !.nodes = [a \in (DOMAIN d.nodes) \cup {addr} |->
                            IF a = addr THEN n
                            ELSE IF \E i \in 1..Len(parents) : parents[i] = a
                            THEN [d.nodes[a] EXCEPT !.children = Append(@, addr)]
                            ELSE d.nodes[a]]]

\* Control::AddNode(n, parents): the address of n, its descriptor, the parents
add_node(d, addr, n, parents) ==
    LET d1 == [Called(d, [ev |-> "add_node", node |-> addr])
                  EXCEPT !.not_ready = @ \cup {addr}]
    IN IF \E i \in 1..Len(parents) : parents[i] \notin DOMAIN d.nodes
       THEN panic(d1, "no parent")
       ELSE [d1 EXCEPT !.nodes = [a \in (DOMAIN d.nodes) \cup {addr} |->
                            IF a = addr THEN n
                            ELSE IF \E i \in 1..Len(parents) : parents[i] = a
                            THEN [d.nodes[a] EXCEPT !.children = Append(@, addr)]
                            ELSE d.nodes[a]]]

\* Domain::new(nodes, checktable, ts): the fields of the domain
new(ns, t) ==
    [nodes |-> ns,
     state |-> EmptyMap,
     buffered_transactions |-> [k \in Timestamps |-> Absent],
     ingress_from_base |-> EmptyMap,
     not_ready |-> {n \in DOMAIN ns : ns[n].op # "timestamp_egress"},
     ts |-> t,
     replaying_to |-> None]

\* Control::Ready(ni, index_on, ack)
ready(d, ni, index_on) ==
    LET d1 == IF is_some(index_on)
              THEN [d EXCEPT !.state = insert(d.state, ni,
                                  new_state(unwrap(index_on), d.nodes[ni].op = "base"))]
              ELSE d
    IN replay_done(d1, ni)

\* Control::PrepareState(ni, on)
prepare_state(d, ni, on) == [d EXCEPT !.state = insert(d.state, ni, new_state(on, FALSE))]

\* Control::StartMigration(ts, channel)
start_migration(d, t, channel) ==
    LET o == entry(d, t)
        d1 == [d EXCEPT !.buffered_transactions[t] = MigrationStart(channel)]
    IN IF o # Absent THEN panic(d1, "o is not none")
       ELSE IF t = d.ts + 1 THEN apply_transactions(d1) ELSE d1

\* without the assert_eq!: the entry waits for its timestamp
complete_migration_held(d, t, counts) ==
    LET o == entry(d, t)
        d1 == [d EXCEPT !.buffered_transactions[t] = MigrationEnd(counts)]
    IN IF o # Absent THEN panic(d1, "o is not none")
       ELSE IF t = d.ts + 1 THEN apply_transactions(d1) ELSE d1

\* Control::CompleteMigration(ts, ingress_from_base)
complete_migration(d, t, counts) ==
    LET o == entry(d, t)
        d1 == [d EXCEPT !.buffered_transactions[t] = MigrationEnd(counts)]
    IN IF o # Absent THEN panic(d1, "o is not none")
       ELSE IF t # d.ts + 1 THEN panic(d1, "ts is not self.ts + 1")
       ELSE apply_transactions(d1)

\* State::clone
clone_empty(s) == new_state(s.pkey, s.base)

clone(s) == s

\* what a Replay command sends
Ack == [kind |-> "ack"]
Full(n, s) == [kind |-> "Full", node |-> n, state |-> s]
Partial(m) == [kind |-> "Partial", m |-> m]

Last(seq) == seq[Len(seq)]

\* Control::Replay(nodes, tx, ack) up to the loop over the chunks
replay_start(d, path, tx) ==
    LET d1 == [Called(d, [ev |-> "replay", nodes |-> path, tx |-> tx])
                  EXCEPT !.replay_sent = <<Ack>>]
    IN IF path = <<>> THEN panic(d1, "nodes is empty")
       ELSE IF path[1] \notin DOMAIN d.state
       THEN panic(d1, "migration replay path started with non-materialized node")
       ELSE IF Len(path) = 1
       THEN IF is_some(tx)
            THEN [d1 EXCEPT !.replay_sent = Append(@, Full(path[1], clone(d.state[path[1]])))]
            ELSE panic(d1, "unreachable")
       ELSE IF is_none(tx)
       THEN [d1 EXCEPT !.replaying_to = Some([target |-> Last(path), buffered |-> <<>>])]
       ELSE d1

\* state.into_iter().flat_map(|(_, rs)| rs): the rows of s, key by key in the
\* order in which the map hands out its keys
RECURSIVE into_iter(_, _)
into_iter(s, order) ==
    IF order = <<>> THEN <<>>
    ELSE [i \in 1..Len(s.rows[Head(order)]) |-> Positive(s.rows[Head(order)][i])]
            \o into_iter(s, Tail(order))

\* the orders in which a map can hand out the keys S
orders(S) ==
    {o \in [1..Cardinality(S) -> S] : \A i, j \in 1..Cardinality(S) : o[i] = o[j] => i = j}

\* the loop that forwards a chunk through the nodes of the path, from the i-th
RECURSIVE forward(_, _, _, _)
forward(d, path, i, m) ==
    IF i > Len(path) THEN [d |-> d, m |-> Some(m)]
    ELSE LET p == process(d, path[i], m, FALSE, "replay")
         IN IF is_none(p.u) THEN [d |-> p.d, m |-> None]
            ELSE forward(p.d, path, i + 1,
                         Message(path[i], IF i # Len(path) THEN path[i + 1] ELSE path[i],
                                 unwrap(p.u).data, None, None))

\* one turn of the loop over the chunks
replay_chunk(d, path, tx, chunk) ==
    LET r == forward(d, path, 2, Message(path[1], path[2], chunk, None, None))
    IN IF is_some(r.m) /\ is_some(tx)
       THEN [r.d EXCEPT !.replay_sent = Append(@, Partial(unwrap(r.m)))]
       ELSE r.d

\* replay_done also when there is a tx
replay_end_always(d, path, tx) == replay_done(d, Last(path))

\* after the loop over the chunks
replay_end(d, path, tx) == IF is_none(tx) THEN replay_done(d, Last(path)) ELSE d

is_ingress(n) == n.op = "ingress"

pkey_equal_always(s, t) == TRUE

\* self.state[..].get_pkey() == state.get_pkey()
pkey_equal(s, t) == s.pkey = t.pkey

\* Control::ReplayThrough(nodes, rx, tx, ack) up to its loops
through_start(d, path, tx) ==
    LET d1 == [Called(d, [ev |-> "replay_through", nodes |-> path, tx |-> tx])
                  EXCEPT !.replay_sent = <<Ack>>]
    IN IF Len(path) = 1
       THEN IF ~is_ingress(d.nodes[path[1]]) THEN panic(d1, "is not ingress")
            ELSE IF is_some(tx) THEN panic(d1, "tx is not none")
            ELSE d1
       ELSE IF is_none(tx)
       THEN [d1 EXCEPT !.replaying_to = Some([target |-> Last(path), buffered |-> <<>>])]
       ELSE d1

\* one turn of the loop over rx of a ReplayThrough with a single node n
through_batch(d, n, batch) ==
    LET d1 == Called(d, [ev |-> "batch", batch |-> batch])
    IN IF n \notin DOMAIN d.state THEN panic(d1, "no state")
       ELSE IF batch.kind = "Full"
       THEN IF ~pkey_equal(d.state[n], batch.state) THEN panic(d1, "pkey differs")
            ELSE replay_done([d1 EXCEPT !.state = insert(d.state, n, batch.state)], n)
       ELSE [d1 EXCEPT !.state[n] = apply_records(@, batch.m.data)]

\* one turn of the loop over the messages of a ReplayThrough with several nodes
through_message(d, path, tx, m) ==
    LET r == forward(Called(d, [ev |-> "message", m |-> m]), path, 1, m)
    IN IF is_some(r.m) /\ is_some(tx)
       THEN [r.d EXCEPT !.replay_sent = Append(@, Partial(unwrap(r.m)))]
       ELSE r.d

\* mpsc::Receiver<ReplayBatch>: the batches sent and not yet taken, and whether
\* every sender has been dropped
Channel(buf, closed_) == [buf |-> buf, closed |-> closed_]

\* state.into_iter(): the entries of the map in the order in which it hands
\* them out; the closure of flat_map keeps the rows of each
state_into_iter(s, order) == [i \in 1..Len(order) |-> s.rows[order[i]]]

\* state_iter.flat_map(|(_, rs)| rs).chunks(1000).into_iter().next(), collected:
\* entries are the entries the map has not handed out, front the rows of the
\* entry that flat_map is in, chunk the rows collected.  A chunk ends when
\* its ChunkSize rows are followed by a further row, which chunks() has then
\* taken from flat_map; the adaptors are temporaries of the call, so that row
\* and the rows left in front are dropped with them, and the map keeps only
\* the entries not handed out.
RECURSIVE take_chunk(_, _, _)
take_chunk(entries, front, chunk) ==
    IF front # <<>>
    THEN IF Len(chunk) = ChunkSize THEN [rest |-> entries, chunk |-> chunk]
         ELSE take_chunk(entries, Tail(front), Append(chunk, Positive(Head(front))))
    ELSE IF entries = <<>> THEN [rest |-> <<>>, chunk |-> chunk]
    ELSE take_chunk(Tail(entries), Head(entries), chunk)

\* BatchedIterator::new(rx, to)
BatchedIterator(rx_, to) == [rx |-> rx_, state_iter |-> None, to |-> to, from |-> None]

\* rx.next() returns: there is a batch, or every sender is gone
can_next(self) == is_some(self.state_iter) \/ self.rx.buf # <<>> \/ self.rx.closed

\* BatchedIterator::next: the iterator afterwards and the item; order is the
\* order in which the map of a Full batch hands out its keys
RECURSIVE next(_, _)
next(self, order) ==
    IF is_some(self.state_iter)
    THEN LET c == take_chunk(unwrap(self.state_iter), <<>>, <<>>)
         IN [self |-> [self EXCEPT !.state_iter = Some(c.rest)],
             item |-> IF c.chunk = <<>> THEN None
                      ELSE Some(Message(unwrap(self.from), self.to, c.chunk, None, None))]
    ELSE IF self.rx.buf = <<>> THEN [self |-> self, item |-> None]
    ELSE LET batch == Head(self.rx.buf)
             taken == [self EXCEPT !.rx.buf = Tail(@)]
         IN IF batch.kind = "Partial" THEN [self |-> taken, item |-> Some(batch.m)]
            ELSE next([taken EXCEPT !.from = Some(batch.node),
                                    !.state_iter = Some(state_into_iter(batch.state, order))],
                      order)

\* one turn of the loop over the BatchedIterator of a ReplayThrough with
\* several nodes, and what follows the loop when the iterator ends
through_next(d, path, tx, item) ==
    IF is_some(item) THEN through_message(d, path, tx, unwrap(item))
    ELSE replay_end(d, path, tx)

\* the position of the worker: in its select, in the loop of a Replay with
\* the rows still to forward, or in the loop over rx of a ReplayThrough; waiting and during count the messages that were
\* in the live channel when the command was taken and those sent since, until
\* the command was left
ReplayIdle(path, tx, waiting) ==
    [pc |-> "idle", nodes |-> path, tx |-> tx, rows |-> <<>>, waiting |-> waiting,
     during |-> 0]
ReplayChunks(path, tx, rows, waiting) ==
    [pc |-> "chunks", nodes |-> path, tx |-> tx, rows |-> rows, waiting |-> waiting,
     during |-> 0]
ReplayThroughLoop(path, tx, waiting) ==
    [pc |-> "through", nodes |-> path, tx |-> tx, rows |-> <<>>, waiting |-> waiting,
     during |-> 0]

\* the position of the worker in the loop over the BatchedIterator it of a
\* ReplayThrough with several nodes; taken are the batches the iterator has
\* taken from rx and yielded the items it has returned (None at the end)
ReplayBatched(path, tx, it, waiting) ==
    [pc |-> "batched", nodes |-> path, tx |-> tx, rows |-> <<>>, waiting |-> waiting,
     during |-> 0, it |-> it, taken |-> <<>>, yielded |-> <<>>]

worker_idle_always(r) == TRUE

\* the loop of boot takes the next input when the handler of the last has returned
worker_idle(r) == r.pc = "idle"

\* the timestamp branch of the loop of boot
remote_transaction_overwrites(d, t) ==
    apply_transactions([d EXCEPT !.buffered_transactions[t] = RemoteTransaction])

remote_transaction(d, t) ==
    LET o == entry(d, t)
        d1 == [d EXCEPT !.buffered_transactions[t] = RemoteTransaction]
    IN IF o # Absent THEN panic(d1, "o is not none") ELSE apply_transactions(d1)

\* the live message branch of the loop of boot, for a message without a token
live_message(d, m) ==
    IF is_none(m.ts) THEN dispatch(d, m, TRUE).d ELSE buffer_transaction(d, m)

\* the global index of the node with the local address n
GlobalIndex ==
    [n \in Nodes |-> CASE n = "n0" -> "I" [] n = "n1" -> "A" [] n = "g" -> "B" [] n = "n2" -> "R"]
index(d, n) == GlobalIndex[n]

\* checktable::TransactionResult
Committed(i) == [kind |-> "Committed", ts |-> i]
Aborted == [kind |-> "Aborted"]

\* Committed(i), but m.ts is left as it was
rx_message_keeps_ts(d, m, result, reply_open) ==
    IF is_none(m.token) THEN live_message(d, m)
    ELSE LET sent == Called(d, [ev |-> "reply", result |-> result, m |-> m,
                                received |-> reply_open])
         IN IF result.kind = "Committed"
            THEN live_message(sent, [m EXCEPT !.token = None])
            ELSE sent

\* Aborted, but without the continue
rx_message_after_abort(d, m, result, reply_open) ==
    IF is_none(m.token) THEN live_message(d, m)
    ELSE LET base_node == index(d, d.nodes[m.to].children[1])
             sent == Called(d, [ev |-> "reply", result |-> result, m |-> m,
                                received |-> reply_open])
         IN IF result.kind = "Committed"
            THEN live_message(sent, [m EXCEPT !.ts = Some(<<result.ts, base_node>>),
                                              !.token = None])
            ELSE live_message(sent, [m EXCEPT !.token = None])

\* the live message branch of the loop of boot: result is what the checktable
\* returns for the token, reply_open whether the receiver of the reply is alive
rx_message(d, m, result, reply_open) ==
    IF is_none(m.token) THEN live_message(d, m)
    ELSE IF m.to \notin DOMAIN d.nodes THEN panic(d, "no node")
    ELSE IF d.nodes[m.to].children = <<>> THEN panic(d, "no child")
    ELSE IF d.nodes[m.to].children[1] \notin DOMAIN d.nodes THEN panic(d, "no node")
    ELSE LET base_node == index(d, d.nodes[m.to].children[1])
             sent == Called(d, [ev |-> "reply", result |-> result, m |-> m,
                                received |-> reply_open])
         IN IF result.kind = "Committed"
            THEN live_message(sent, [m EXCEPT !.ts = Some(<<result.ts, base_node>>),
                                              !.token = None])
            ELSE sent

-----------------------------------------------------------------------------
(* PacketSender of src/channel/packet.rs.  A channel end is known by its   *)
(* name and by whether its receiver is still there; the client is known by *)
(* its name, and whether a call of it succeeds is up to the transport.     *)

Local(s) == [variant |-> "Local", s |-> s]
LocalUnbounded(s) == [variant |-> "LocalUnbounded", s |-> s]
Remote(domain, client, client_addr, demux_table, local_addr, input, bounded) ==
    [variant |-> "Remote", domain |-> domain, client |-> client,
     client_addr |-> client_addr, demux_table |-> demux_table,
     local_addr |-> local_addr, input |-> input, bounded |-> bounded]

make_remote(domain, client, client_addr, demux_table, local_addr) ==
    Remote(domain, client, client_addr, demux_table, local_addr, FALSE, TRUE)

make_remote_input(domain, client, client_addr, demux_table, local_addr) ==
    Remote(domain, client, client_addr, demux_table, local_addr, TRUE, TRUE)

make_remote_unbounded(domain, client, client_addr, demux_table, local_addr) ==
    Remote(domain, client, client_addr, demux_table, local_addr, FALSE, FALSE)

RequestUnboundedTx(reply) == [kind |-> "RequestUnboundedTx", reply |-> reply]
DataPacket(payload) == [kind |-> "Data", payload |-> payload]

\* Packet::make_serializable(local_addr, demux_table): the packet as it goes
\* on the wire
make_serializable(packet, local_addr, demux_table) ==
    [kind |-> "Wire", of |-> packet, local_addr |-> local_addr,
     demux_table |-> demux_table]

Ok == [ok |-> TRUE]
Err(e) == [ok |-> FALSE, err |-> e]

\* no call of send yet
NoSend == [called |-> FALSE]

\* the outcome of a call: the result, or a panic; what went into the local
\* channel, what was delivered on the reply channel of the packet, and the
\* calls of the client
Outcome(self, packet, result, panics, into_local, on_reply, rpcs) ==
    [called |-> TRUE, self |-> self, packet |-> packet, result |-> result,
     panics |-> panics, into_local |-> into_local, on_reply |-> on_reply, rpcs |-> rpcs]

\* PacketSender::send(&self, packet); rpc_ok: the call of the client succeeds
send(self, packet, rpc_ok) ==
    IF self.variant \in {"Local", "LocalUnbounded"}
    THEN IF self.s.open
         THEN Outcome(self, packet, Ok, FALSE, <<packet>>, <<>>, <<>>)
         ELSE Outcome(self, packet, Err("Unknown"), FALSE, <<>>, <<>>, <<>>)
    ELSE IF packet.kind = "RequestUnboundedTx"
    THEN IF packet.reply.open
         THEN Outcome(self, packet, Ok, FALSE, <<>>,
                      <<make_remote_unbounded(self.domain, self.client, self.client_addr,
                                              self.demux_table, self.local_addr)>>,
                      <<>>)
         ELSE Outcome(self, packet, None, TRUE, <<>>, <<>>, <<>>)
    ELSE LET wire == make_serializable(packet, self.local_addr, self.demux_table)
             call == [transport |-> IF ~self.bounded THEN "recv_unbounded_packet"
                                    ELSE IF self.input THEN "recv_input_packet"
                                    ELSE "recv_packet",
                      domain |-> self.domain, packet |-> wire, ok |-> rpc_ok]
         IN Outcome(self, packet, IF rpc_ok THEN Ok ELSE Err("Unknown"), FALSE,
                    <<>>, <<>>, <<call>>)

-----------------------------------------------------------------------------
(* The environment: what is sent to the domain.  A message or command sent *)
(* while the worker waits in its select is taken at once.                  *)

\* the ingress counts that migrations install
CountMaps == {("A" :> 2) @@ ("B" :> 1), ("A" :> 1)}

Update(r) == Message("ext", "n0", <<Positive(r)>>, None, None)
Fragment(t, base) == Message("ext", "n0", <<Positive(<<"b", "y">>)>>, Some(<<t, base>>), None)

TokenUpdate(r) ==
    Message("ext", "n0", <<Positive(r)>>, None, Some([token |-> "tk", send |-> "reply"]))

\* what the checktable can return
Results == {Aborted} \cup {Committed(i) : i \in Timestamps}

\* the fragments buffered for timestamp t
fragments(t) ==
    IF buffered_transactions[t].kind = "Transaction"
    THEN Len(buffered_transactions[t].messages) ELSE 0

RECURSIVE sum(_, _)
sum(f, S) == IF S = {} THEN 0 ELSE LET x == CHOOSE x \in S : TRUE IN f[x] + sum(f, S \ {x})

buffered_fragments == sum([t \in Timestamps |-> fragments(t)], Timestamps)

Init ==
    /\ nodes = InitNodes
    /\ state = EmptyMap
    /\ buffered_transactions = [t \in Timestamps |-> Absent]
    /\ ingress_from_base = EmptyMap
    /\ ts = InitTs
    /\ not_ready = Nodes
    /\ replaying_to = None
    /\ rx = <<>>
    /\ panicked = FALSE
    /\ acks = [t \in Timestamps |-> 0]
    /\ calls = <<>>
    /\ dispatched = [t \in Timestamps |-> 0]
    /\ applied = <<>>
    /\ replay = ReplayIdle(<<>>, None, 0)
    /\ replay_sent = <<>>
    /\ closed = {}
    /\ last_send = NoSend

\* the worker waits in its select
idle == ~panicked /\ rx = <<>> /\ worker_idle(replay)

\* the worker takes a fragment of a transaction from the live channel
RecvFragment ==
    /\ idle
    /\ \E t \in Timestamps, base \in Bases :
          /\ buffered_fragments < MaxFrag
          /\ Becomes(live_message(Self, Fragment(t, base)))
    /\ UNCHANGED <<rx, replay, closed, last_send>>

\* the worker takes a timestamp announcement
RecvTimestamp ==
    /\ idle
    /\ \E t \in Timestamps : Becomes(remote_transaction(Self, t))
    /\ UNCHANGED <<rx, replay, closed, last_send>>

StartMigration ==
    /\ idle
    /\ \E t \in Timestamps :
          /\ acks[t] = 0
          /\ buffered_transactions[t].kind # "MigrationStart"
          /\ Becomes(start_migration(Self, t, t))
    /\ UNCHANGED <<rx, replay, closed, last_send>>

CompleteMigration ==
    /\ idle
    /\ \E t \in Timestamps, counts \in CountMaps : Becomes(complete_migration(Self, t, counts))
    /\ UNCHANGED <<rx, replay, closed, last_send>>

\* the worker takes an update from the live channel
RecvUpdate ==
    /\ idle
    /\ \E r \in Rows : Becomes(live_message(Self, Update(r)))
    /\ UNCHANGED <<rx, replay, closed, last_send>>

Ready ==
    /\ idle
    /\ \E ni \in DOMAIN nodes : Becomes(ready(Self, ni, None))
    /\ UNCHANGED <<rx, replay, closed, last_send>>

\* the worker takes a fragment of the transaction that is next in time
RecvNextFragment ==
    /\ idle
    /\ ts + 1 \in Timestamps
    /\ buffered_fragments < MaxFrag
    /\ \E base \in Bases : Becomes(live_message(Self, Fragment(ts + 1, base)))
    /\ UNCHANGED <<rx, replay, closed, last_send>>

\* a migration ends at the timestamp that is next in time
CompleteNextMigration ==
    /\ idle
    /\ ts + 1 \in Timestamps
    /\ \E counts \in CountMaps : Becomes(complete_migration(Self, ts + 1, counts))
    /\ UNCHANGED <<rx, replay, closed, last_send>>

\* The replay of the state of n0: the domain after Ready(n0, Some(0)),
\* Ready(n1, None) and PrepareState(n2, 0), while g and n2 are being added.
InitReplay ==
    /\ nodes = InitNodes
    /\ state = insert(insert(EmptyMap, "n0", new_state(0, FALSE)), "n2", new_state(0, FALSE))
    /\ buffered_transactions = [t \in Timestamps |-> Absent]
    /\ ingress_from_base = EmptyMap
    /\ ts = InitTs
    /\ not_ready = {"g", "n2"}
    /\ replaying_to = None
    /\ rx = <<>>
    /\ panicked = FALSE
    /\ acks = [t \in Timestamps |-> 0]
    /\ calls = <<>>
    /\ dispatched = [t \in Timestamps |-> 0]
    /\ applied = <<>>
    /\ replay = ReplayIdle(<<>>, None, 0)
    /\ replay_sent = <<>>
    /\ closed = {}
    /\ last_send = NoSend

\* The replay of a state into n0: the domain after Ready(n1, None),
\* PrepareState(n0, 0) and PrepareState(n2, 0), while n0, g and n2 are being added.
InitThrough ==
    /\ nodes = InitNodes
    /\ state = insert(insert(EmptyMap, "n0", new_state(0, FALSE)), "n2", new_state(0, FALSE))
    /\ buffered_transactions = [t \in Timestamps |-> Absent]
    /\ ingress_from_base = EmptyMap
    /\ ts = InitTs
    /\ not_ready = {"n0", "g", "n2"}
    /\ replaying_to = None
    /\ rx = <<>>
    /\ panicked = FALSE
    /\ acks = [t \in Timestamps |-> 0]
    /\ calls = <<>>
    /\ dispatched = [t \in Timestamps |-> 0]
    /\ applied = <<>>
    /\ replay = ReplayIdle(<<>>, None, 0)
    /\ replay_sent = <<>>
    /\ closed = {}
    /\ last_send = NoSend

\* The replay of a state from upstream through n0 and n1 into n2: the domain
\* after Ready(n0, None), Ready(n1, None) and PrepareState(n2, 0), while g and
\* n2 are being added.
InitThroughPath ==
    /\ nodes = InitNodes
    /\ state = insert(EmptyMap, "n2", new_state(0, FALSE))
    /\ buffered_transactions = [t \in Timestamps |-> Absent]
    /\ ingress_from_base = EmptyMap
    /\ ts = InitTs
    /\ not_ready = {"g", "n2"}
    /\ replaying_to = None
    /\ rx = <<>>
    /\ panicked = FALSE
    /\ acks = [t \in Timestamps |-> 0]
    /\ calls = <<>>
    /\ dispatched = [t \in Timestamps |-> 0]
    /\ applied = <<>>
    /\ replay = ReplayIdle(<<>>, None, 0)
    /\ replay_sent = <<>>
    /\ closed = {}
    /\ last_send = NoSend

\* the rows held by the state s
RECURSIVE count_rows(_, _)
count_rows(s, keys) ==
    IF keys = {} THEN 0
    ELSE LET k == CHOOSE k \in keys : TRUE
         IN Len(s.rows[k]) + count_rows(s, keys \ {k})

\* the most rows a state holds
rows_held ==
    LET held_by == {count_rows(state[n], DOMAIN state[n].rows) : n \in DOMAIN state}
    IN IF held_by = {} THEN 0 ELSE CHOOSE n \in held_by : \A k \in held_by : k <= n

\* the updates sent so far: those a state has taken in and those in the channel
updates_sent == rows_held + Len(rx)

\* an update is sent to the domain, whatever the worker is doing
Send ==
    /\ ~panicked
    /\ "rx" \notin closed
    /\ replay.pc # "returned"
    /\ Len(rx) < MaxRx
    /\ updates_sent < MaxUpdates
    /\ \E r \in Rows : rx' = Append(rx, Update(r))
    /\ calls' = <<>>
    /\ replay' = IF replay.pc # "idle" THEN [replay EXCEPT !.during = @ + 1] ELSE replay
    /\ UNCHANGED <<nodes, state, buffered_transactions, ingress_from_base, ts, not_ready,
                   replaying_to, panicked, acks, dispatched, applied, replay_sent,
                   closed, last_send>>

\* the worker takes the next message of the live channel
Recv ==
    /\ ~panicked
    /\ worker_idle(replay)
    /\ rx # <<>>
    /\ Becomes(live_message(Self, Head(rx)))
    /\ rx' = Tail(rx)
    /\ UNCHANGED <<replay, closed, last_send>>

\* the commands the coordinator sends: the state of n0 for another domain, the
\* state of n0 through n1 for another domain, the state of n0 for the sink n2;
\* it sends them when the nodes of the path are ready, but for the sink
ReplayCommands ==
    {[nodes |-> <<"n0">>, tx |-> Some("tx")],
     [nodes |-> <<"n0", "n1">>, tx |-> Some("tx")],
     [nodes |-> <<"n0", "n1", "n2">>, tx |-> None]}

\* the worker takes a Replay command and runs it up to its loop
ReplayStart ==
    /\ ~panicked
    /\ "crx" \notin closed
    /\ worker_idle(replay)
    /\ \E c \in ReplayCommands :
          /\ c.nodes[1] \in DOMAIN state
          /\ \A i \in 1..Len(c.nodes) :
                c.nodes[i] \in not_ready <=> (is_none(c.tx) /\ i = Len(c.nodes))
          /\ \E order \in orders(DOMAIN state[c.nodes[1]].rows) :
                LET d == replay_start(Self, c.nodes, c.tx) IN
                /\ Becomes(d)
                /\ replay' = IF d.panicked THEN replay
                              ELSE IF Len(c.nodes) = 1
                              THEN ReplayIdle(c.nodes, c.tx, Len(rx))
                              ELSE ReplayChunks(c.nodes, c.tx,
                                       into_iter(clone(state[c.nodes[1]]), order), Len(rx))
    /\ UNCHANGED <<rx, closed, last_send>>

\* the commands the coordinator sends: a state from upstream for n0, or through
\* n0 and n1 for n2, when the path is ready, but for the sink, and holds no
\* state of its own
ThroughCommands ==
    {[nodes |-> <<"n0">>, tx |-> None],
     [nodes |-> <<"n0", "n1", "n2">>, tx |-> None]}

\* the worker takes a ReplayThrough command and runs it up to its loop
ThroughStart ==
    /\ ~panicked
    /\ "crx" \notin closed
    /\ worker_idle(replay)
    /\ \E c \in ThroughCommands :
          /\ \A i \in 1..Len(c.nodes) :
                /\ c.nodes[i] \in not_ready <=> i = Len(c.nodes)
                /\ i # Len(c.nodes) => c.nodes[i] \notin DOMAIN state
          /\ LET d == through_start(Self, c.nodes, c.tx) IN
             /\ Becomes(d)
             /\ replay' = IF d.panicked THEN replay
                           ELSE ReplayThroughLoop(c.nodes, c.tx, Len(rx))
    /\ UNCHANGED <<rx, closed, last_send>>

\* the states and the messages that the domain upstream replays
FullStates ==
    {[new_state(k, FALSE) EXCEPT !.rows = rows] :
        k \in {0, 1},
        rows \in {EmptyMap, [x \in {"a"} |-> <<<<"a", "x">>>>],
                  [x \in {"a", "b"} |-> IF x = "a" THEN <<<<"a", "x">>>> ELSE <<<<"b", "y">>>>]}}

Signed == {Positive(r) : r \in Rows} \cup {Negative(r) : r \in Rows}

Batches ==
    {Full("up", s) : s \in FullStates}
        \cup {Partial(Message("up", "n0", <<r>>, None, None)) : r \in Signed}
        \cup {Partial(Message("up", "n0", <<r, q>>, None, None)) : r \in Signed, q \in Signed}

\* the loop over rx takes the next batch
ThroughBatch ==
    /\ ~panicked
    /\ replay.pc = "through"
    /\ Len(replay.nodes) = 1
    /\ \E batch \in Batches :
          /\ rows_held < MaxUpdates
          /\ LET d == through_batch(Self, replay.nodes[1], batch) IN
             /\ Becomes(d)
             /\ replay' = IF batch.kind = "Full" /\ ~d.panicked
                           THEN [replay EXCEPT !.pc = "idle"] ELSE replay
    /\ UNCHANGED <<rx, closed, last_send>>

\* the loop over the BatchedIterator takes the next message: that of a Partial
\* batch, as it is
ThroughMessage ==
    /\ ~panicked
    /\ replay.pc = "through"
    /\ Len(replay.nodes) > 1
    /\ \E batch \in Batches :
          /\ batch.kind = "Partial"
          /\ rows_held < MaxUpdates
          /\ Becomes(through_message(Self, replay.nodes, replay.tx, batch.m))
    /\ UNCHANGED <<rx, replay, closed, last_send>>

\* rx is closed and drained: the loop ends
ThroughClosed ==
    /\ ~panicked
    /\ replay.pc = "through"
    /\ LET d == replay_end(Self, replay.nodes, replay.tx) IN
       /\ Becomes(d)
       /\ replay' = IF d.panicked THEN replay ELSE [replay EXCEPT !.pc = "idle"]
    /\ UNCHANGED <<rx, closed, last_send>>

\* the second columns of the rows that an upstream state holds under a key
Marks == <<"x", "y", "z", "w", "v">>

\* the states that are replayed: under each of two keys no row, one row or
\* one row more than a chunk holds
ReplayedStates ==
    {[new_state(0, FALSE) EXCEPT !.rows =
         [k \in {k \in {"a", "b"} : n[k] > 0} |-> [i \in 1..n[k] |-> <<k, Marks[i]>>]]] :
        n \in [{"a", "b"} -> {0, 1, ChunkSize + 1}]}

\* what the domain upstream sends on the channel of a ReplayThrough
UpstreamBatches ==
    {Full("up", s) : s \in ReplayedStates}
        \cup {Partial(Message("up", "n0", <<r>>, None, None)) :
                 r \in {Positive(<<"a", "x">>), Positive(<<"b", "y">>), Negative(<<"b", "y">>)}}

\* the Replay and ReplayThrough commands with several nodes: into the sink n2
\* of this domain, and through n1 or through the filter g for another domain
PathCommands ==
    {[nodes |-> <<"n0", "n1", "n2">>, tx |-> None],
     [nodes |-> <<"n0", "n1">>, tx |-> Some("tx")],
     [nodes |-> <<"n0", "g">>, tx |-> Some("tx")]}

\* The domain that holds the state of n0 and is to replay it: the domain
\* after Ready(n0, Some(0)), Ready(n1, None), PrepareState(n2, 0) and the
\* updates that left the rows in n0, while g and n2 are being added.
InitPath ==
    /\ nodes = InitNodes
    /\ \E s \in ReplayedStates :
          state = insert(insert(EmptyMap, "n0", s), "n2", new_state(0, FALSE))
    /\ buffered_transactions = [t \in Timestamps |-> Absent]
    /\ ingress_from_base = EmptyMap
    /\ ts = InitTs
    /\ not_ready = {"g", "n2"}
    /\ replaying_to = None
    /\ rx = <<>>
    /\ panicked = FALSE
    /\ acks = [t \in Timestamps |-> 0]
    /\ calls = <<>>
    /\ dispatched = [t \in Timestamps |-> 0]
    /\ applied = <<>>
    /\ replay = ReplayIdle(<<>>, None, 0)
    /\ replay_sent = <<>>
    /\ closed = {}
    /\ last_send = NoSend

\* the worker takes its first replay command, a Replay with several nodes
\* that starts at a materialized node, and runs it up to its loop
ReplayPathStart ==
    /\ ~panicked
    /\ worker_idle(replay)
    /\ replay.nodes = <<>>
    /\ \E c \in PathCommands :
          /\ c.nodes[1] \in DOMAIN state
          /\ \E order \in orders(DOMAIN state[c.nodes[1]].rows) :
                LET d == replay_start(Self, c.nodes, c.tx) IN
                /\ Becomes(d)
                /\ replay' = IF d.panicked THEN replay
                              ELSE ReplayChunks(c.nodes, c.tx,
                                       into_iter(clone(state[c.nodes[1]]), order), Len(rx))
    /\ UNCHANGED <<rx, closed, last_send>>

\* the worker takes its first replay command, a ReplayThrough with several
\* nodes that starts at a node without a state, and runs it up to its loop
ThroughPathStart ==
    /\ ~panicked
    /\ worker_idle(replay)
    /\ replay.nodes = <<>>
    /\ \E c \in PathCommands :
          /\ c.nodes[1] \notin DOMAIN state
          /\ LET d == through_start(Self, c.nodes, c.tx) IN
             /\ Becomes(d)
             /\ replay' = IF d.panicked THEN replay
                           ELSE ReplayBatched(c.nodes, c.tx,
                                    BatchedIterator(Channel(<<>>, FALSE), c.nodes[1]), Len(rx))
    /\ UNCHANGED <<rx, closed, last_send>>

\* the batches sent on the channel of the ReplayThrough so far
batches_sent == Len(replay.taken) + Len(replay.it.rx.buf)

\* the domain upstream sends a batch
UpstreamSend ==
    /\ ~panicked
    /\ replay.pc = "batched"
    /\ ~replay.it.rx.closed
    /\ batches_sent < MaxBatches
    /\ \E batch \in UpstreamBatches :
          replay' = [replay EXCEPT !.it.rx.buf = Append(@, batch)]
    /\ calls' = <<>>
    /\ UNCHANGED <<nodes, state, buffered_transactions, ingress_from_base, ts, not_ready,
                   replaying_to, rx, panicked, acks, dispatched, applied, replay_sent,
                   closed, last_send>>

\* the domain upstream drops its sender
UpstreamDrop ==
    /\ ~panicked
    /\ replay.pc = "batched"
    /\ ~replay.it.rx.closed
    /\ replay' = [replay EXCEPT !.it.rx.closed = TRUE]
    /\ calls' = <<>>
    /\ UNCHANGED <<nodes, state, buffered_transactions, ingress_from_base, ts, not_ready,
                   replaying_to, rx, panicked, acks, dispatched, applied, replay_sent,
                   closed, last_send>>

\* the keys of the state of the Full batch that the iterator would take
next_keys(self) ==
    IF is_none(self.state_iter) /\ self.rx.buf # <<>> /\ Head(self.rx.buf).kind = "Full"
    THEN DOMAIN Head(self.rx.buf).state.rows ELSE {}

\* the loop asks the BatchedIterator for the next message and forwards it
\* through the nodes of the path, or ends
ThroughNext ==
    /\ ~panicked
    /\ replay.pc = "batched"
    /\ can_next(replay.it)
    /\ \E order \in orders(next_keys(replay.it)) :
          LET n == next(replay.it, order)
              d == through_next(Self, replay.nodes, replay.tx, n.item)
              took == SubSeq(replay.it.rx.buf, 1,
                             Len(replay.it.rx.buf) - Len(n.self.rx.buf))
          IN /\ Becomes(d)
             /\ replay' = IF d.panicked THEN replay
                           ELSE [replay EXCEPT !.it = n.self,
                                               !.taken = @ \o took,
                                               !.yielded = Append(@, n.item),
                                               !.pc = IF is_some(n.item) THEN "batched"
                                                      ELSE "idle"]
    /\ UNCHANGED <<rx, closed, last_send>>

chunk_of(rows) == SubSeq(rows, 1, IF Len(rows) < ChunkSize THEN Len(rows) ELSE ChunkSize)
after_chunk(rows) == SubSeq(rows, Len(chunk_of(rows)) + 1, Len(rows))

\* the worker forwards the next chunk
ReplayChunk ==
    /\ ~panicked
    /\ replay.pc = "chunks"
    /\ replay.rows # <<>>
    /\ Becomes(replay_chunk(Self, replay.nodes, replay.tx, chunk_of(replay.rows)))
    /\ replay' = [replay EXCEPT !.rows = after_chunk(replay.rows)]
    /\ UNCHANGED <<rx, closed, last_send>>

\* the chunks are through: the worker leaves the command
ReplayEnd ==
    /\ ~panicked
    /\ replay.pc = "chunks"
    /\ replay.rows = <<>>
    /\ LET d == replay_end(Self, replay.nodes, replay.tx) IN
       /\ Becomes(d)
       /\ replay' = IF d.panicked THEN replay ELSE [replay EXCEPT !.pc = "idle"]
    /\ UNCHANGED <<rx, closed, last_send>>

\* the worker takes a message that carries a token from the live channel
RecvToken ==
    /\ idle
    /\ \E r \in Kept, result \in Results, reply_open \in BOOLEAN :
          /\ result.kind = "Committed" => buffered_fragments < MaxFrag
          /\ Becomes(rx_message(Self, TokenUpdate(r), result, reply_open))
    /\ UNCHANGED <<rx, replay, closed, last_send>>

\* the channels the worker selects on
Channels == {"rx", "timestamp_rx", "crx"}

\* recv() of a channel is an error: every sender is dropped and nothing sent
\* is left in it (commands and timestamps are taken as they are sent, so only
\* rx can hold something)
recv_is_err_never(ch) == FALSE

recv_is_err(ch) == ch \in closed /\ (ch = "rx" => rx = <<>>)

\* the last sender of a channel is dropped
Drop ==
    /\ ~panicked
    /\ replay.pc # "returned"
    /\ \E ch \in Channels \ closed : closed' = closed \cup {ch}
    /\ calls' = <<>>
    /\ UNCHANGED <<nodes, state, buffered_transactions, ingress_from_base, ts, not_ready,
                   replaying_to, rx, panicked, acks, dispatched, applied, replay,
                   replay_sent, last_send>>

\* the select wakes the worker for a channel whose recv() is an error: the
\* closure of the thread returns
Return ==
    /\ ~panicked
    /\ worker_idle(replay)
    /\ \E ch \in Channels :
          /\ recv_is_err(ch)
          /\ calls' = <<[ev |-> "return", channel |-> ch]>>
    /\ replay' = [replay EXCEPT !.pc = "returned"]
    /\ UNCHANGED <<nodes, state, buffered_transactions, ingress_from_base, ts, not_ready,
                   replaying_to, rx, panicked, acks, dispatched, applied, replay_sent,
                   closed, last_send>>

\* the nodes of a domain that also has a timestamp egress node e below n1
NodesWithEgress ==
    [n \in Nodes \cup {"e"} |->
        IF n = "e" THEN Descriptor(<<>>, "timestamp_egress", FALSE)
        ELSE IF n = "n1" THEN Descriptor(<<"n2", "e">>, "base", FALSE)
        ELSE InitNodes[n]]

\* the domain as Domain::new leaves it
InitNew ==
    LET d == new(NodesWithEgress, InitTs) IN
    /\ nodes = d.nodes
    /\ state = d.state
    /\ buffered_transactions = d.buffered_transactions
    /\ ingress_from_base = d.ingress_from_base
    /\ ts = d.ts
    /\ not_ready = d.not_ready
    /\ replaying_to = d.replaying_to
    /\ rx = <<>>
    /\ panicked = FALSE
    /\ acks = [t \in Timestamps |-> 0]
    /\ calls = <<>>
    /\ dispatched = [t \in Timestamps |-> 0]
    /\ applied = <<>>
    /\ replay = ReplayIdle(<<>>, None, 0)
    /\ replay_sent = <<>>
    /\ closed = {}
    /\ last_send = NoSend

\* the nodes the coordinator adds: a second reader x below g, once, and any
\* node of the domain again under its address
AddCommands ==
    {[addr |-> "x", n |-> Descriptor(<<>>, "reader", TRUE), parents |-> <<"g">>]}
        \cup {[addr |-> "x", n |-> Descriptor(<<>>, "reader", TRUE), parents |-> <<>>]}
        \cup {[addr |-> a, n |-> NodesWithEgress[a], parents |-> <<>>] : a \in Nodes}

AddNode ==
    /\ idle
    /\ \E c \in AddCommands :
          /\ c.parents # <<>> => c.addr \notin DOMAIN nodes
          /\ Becomes(add_node(Self, c.addr, c.n, c.parents))
    /\ UNCHANGED <<rx, replay, closed, last_send>>

\* the coordinator prepares the state of the source n0 and of the reader n2
PrepareState ==
    /\ idle
    /\ \E ni \in {"n0", "n2"} :
          /\ ni \notin DOMAIN state
          /\ Becomes(prepare_state(Self, ni, 0))
    /\ UNCHANGED <<rx, replay, closed, last_send>>

\* a domain whose nodes are the chain n0, g, n1, n2: the filter g is above
\* the base n1
ChainNodes ==
    [n \in Nodes |->
        CASE n = "n0" -> Descriptor(<<"g">>, "ingress", FALSE)
          [] n = "g"  -> Descriptor(<<"n1">>, "filter", FALSE)
          [] n = "n1" -> Descriptor(<<"n2">>, "base", FALSE)
          [] n = "n2" -> Descriptor(<<>>, "reader", TRUE)]

InitChain ==
    LET d == new(ChainNodes, InitTs) IN
    /\ nodes = d.nodes
    /\ state = d.state
    /\ buffered_transactions = d.buffered_transactions
    /\ ingress_from_base = d.ingress_from_base
    /\ ts = d.ts
    /\ not_ready = d.not_ready
    /\ replaying_to = d.replaying_to
    /\ rx = <<>>
    /\ panicked = FALSE
    /\ acks = [t \in Timestamps |-> 0]
    /\ calls = <<>>
    /\ dispatched = [t \in Timestamps |-> 0]
    /\ applied = <<>>
    /\ replay = ReplayIdle(<<>>, None, 0)
    /\ replay_sent = <<>>
    /\ closed = {}
    /\ last_send = NoSend

\* what a fragment of a transaction carries: nothing, a row that the filter
\* drops, a row that it lets through
FragmentData == {<<>>, <<Positive(<<"a", "x">>)>>, <<Positive(<<"b", "y">>)>>}

\* the worker takes a fragment of the transaction that is next in time
RecvNextFragmentWith ==
    /\ idle
    /\ ts + 1 \in Timestamps
    /\ buffered_fragments < MaxFrag
    /\ \E base \in Bases, data \in FragmentData :
          Becomes(live_message(Self, Message("ext", "n0", data, Some(<<ts + 1, base>>), None)))
    /\ UNCHANGED <<rx, replay, closed, last_send>>

\* the arguments of dispatch: the not-ready sets and the replay cursors
NotReadySets == {{}, {"n2"}, {"n1", "n2"}, {"g", "n2"}, Nodes}
Cursors == {None} \cup {Some([target |-> t, buffered |-> <<>>]) : t \in {"n1", "n2"}}

InitCursor ==
    /\ nodes = InitNodes
    /\ state = EmptyMap
    /\ buffered_transactions = [t \in Timestamps |-> Absent]
    /\ ingress_from_base = EmptyMap
    /\ ts = InitTs
    /\ not_ready \in NotReadySets
    /\ replaying_to \in Cursors
    /\ rx = <<>>
    /\ panicked = FALSE
    /\ acks = [t \in Timestamps |-> 0]
    /\ calls = <<>>
    /\ dispatched = [t \in Timestamps |-> 0]
    /\ applied = <<>>
    /\ replay = ReplayIdle(<<>>, None, 0)
    /\ replay_sent = <<>>
    /\ closed = {}
    /\ last_send = NoSend

\* the messages dispatch is called with: an update for any node, from outside
DispatchMessages ==
    {Message("ext", n, <<Positive(r)>>, None, None) : n \in Nodes, r \in Rows}

\* dispatch is called; the cursor buffer is kept within the bound
Dispatch ==
    /\ ~panicked
    /\ \E m \in DispatchMessages, enable_output \in BOOLEAN :
          LET d == dispatch_call(Self, m, enable_output) IN
          /\ is_some(d.replaying_to) => Len(unwrap(d.replaying_to).buffered) <= MaxUpdates
          /\ Becomes(d)
    /\ UNCHANGED <<rx, replay, closed, last_send>>

\* the ends of channels: the receiver is there or dropped
ChannelEnds == {[name |-> "ch", open |-> o] : o \in BOOLEAN}

\* the senders: over a local channel, and to a remote domain as the three
\* constructors make them
Senders ==
    {Local(c) : c \in ChannelEnds} \cup {LocalUnbounded(c) : c \in ChannelEnds}
        \cup UNION {{make_remote(dm, "client", ca, tb, la),
                     make_remote_input(dm, "client", ca, tb, la),
                     make_remote_unbounded(dm, "client", ca, tb, la)} :
                        dm \in {0, 1}, ca \in {"addr1", "addr2"},
                        tb \in {"t1", "t2"}, la \in {"addr3", "addr4"}}

Packets ==
    {RequestUnboundedTx(c) : c \in ChannelEnds} \cup {DataPacket(x) : x \in Rows}

\* some sender is asked to send some packet
SendPacket ==
    /\ \E self \in Senders, packet \in Packets, rpc_ok \in BOOLEAN :
          last_send' = send(self, packet, rpc_ok)
    /\ UNCHANGED <<nodes, state, buffered_transactions, ingress_from_base, ts, not_ready,
                   replaying_to, rx, panicked, acks, calls, dispatched, applied, replay,
                   replay_sent, closed>>

Next ==
    \/ RecvFragment
    \/ RecvTimestamp
    \/ StartMigration
    \/ CompleteMigration

Spec == Init /\ [][Next]_vars

\* The domain under updates and transactions that arrive in time order while
\* its nodes are made ready one by one.
NextDispatch ==
    \/ RecvUpdate
    \/ Ready
    \/ RecvNextFragment
    \/ CompleteNextMigration

SpecDispatch == Init /\ [][NextDispatch]_vars

\* The domain under messages that carry a token, while migrations end and
\* nodes are made ready.
NextToken ==
    \/ RecvToken
    \/ Ready
    \/ CompleteNextMigration

SpecToken == Init /\ [][NextToken]_vars

\* The domain under Replay and ReplayThrough commands while updates are sent
\* to it.
NextReplay ==
    \/ Send
    \/ Recv
    \/ ReplayStart
    \/ ReplayChunk
    \/ ReplayEnd
    \/ ThroughStart
    \/ ThroughBatch
    \/ ThroughMessage
    \/ ThroughClosed

InitReplays == InitReplay \/ InitThrough \/ InitThroughPath

SpecReplay == InitReplays /\ [][NextReplay]_vars

\* The domain whose nodes are a chain, under updates and under transactions
\* with and without data that arrive in time order, while its nodes are made
\* ready one by one.
NextChain ==
    \/ RecvUpdate
    \/ Ready
    \/ RecvNextFragmentWith
    \/ CompleteNextMigration

SpecChain == InitChain /\ [][NextChain]_vars

\* The calls of Domain::dispatch, a public function of its arguments, for
\* any not-ready set and any replay cursor.
NextCursor == Dispatch

SpecCursor == InitCursor /\ [][NextCursor]_vars

\* The calls of PacketSender::send.
NextSend == SendPacket

SpecSend == Init /\ [][NextSend]_vars

\* The domain from its construction on, while nodes are added and made ready
\* by Ready commands and by replays of states that hold no rows yet.
NextReady ==
    \/ AddNode
    \/ Ready
    \/ PrepareState
    \/ ReplayStart
    \/ ReplayEnd
    \/ ThroughStart
    \/ ThroughClosed

SpecReady == InitNew /\ [][NextReady]_vars

\* The worker while the senders of its channels are dropped.  The thread of
\* the worker is scheduled, so a replay in progress goes on.  A channel that
\* holds a message or is closed is ready at every select from then on, and
\* the select does not pass over a channel that is ready at each of its calls
\* for ever: hence the strong fairness of taking a message and of Return,
\* which are disabled while the worker is inside a handler.
NextClose ==
    \/ Send
    \/ Recv
    \/ ReplayStart
    \/ ReplayChunk
    \/ ReplayEnd
    \/ Drop
    \/ Return

\* what Recv does to rx
TakesMessage ==
    /\ ~panicked
    /\ worker_idle(replay)
    /\ rx # <<>>
    /\ rx' = Tail(rx)

\* what ReplayChunk and ReplayEnd do to the position of the worker
ReplayGoesOn ==
    /\ ~panicked
    /\ replay.pc = "chunks"
    /\ replay' = IF replay.rows # <<>>
                 THEN [replay EXCEPT !.rows = after_chunk(replay.rows)]
                 ELSE [replay EXCEPT !.pc = "idle"]

SpecClose ==
    /\ InitReplay
    /\ [][NextClose]_vars
    /\ SF_rx(TakesMessage)
    /\ WF_replay(ReplayGoesOn)
    /\ SF_vars(Return)




\* The domain under a ReplayThrough command with several nodes, while the
\* domain upstream sends batches and drops its sender.
NextBatched ==
    \/ ThroughPathStart
    \/ UpstreamSend
    \/ UpstreamDrop
    \/ ThroughNext

SpecBatched == InitThroughPath /\ [][NextBatched]_vars

\* The domain under a Replay or a ReplayThrough command with several nodes.
NextPath ==
    \/ ReplayPathStart
    \/ ReplayChunk
    \/ ReplayEnd
    \/ NextBatched

InitPaths == InitPath \/ InitThroughPath

SpecPath == InitPaths /\ [][NextPath]_vars


\* The domain under Replay and ReplayThrough commands while updates are sent
\* to it and nodes are made ready by Ready commands.
NextDrain ==
    \/ NextReplay
    \/ Ready

SpecDrain == InitReplays /\ [][NextDrain]_vars

-----------------------------------------------------------------------------
(* The properties.                                                         *)

events(log, kinds) == SelectSeq(log, LAMBDA c : c.ev \in kinds)

\* C1: ts never decreases; a step changes it only through apply_transactions,
\* which adds exactly 1 right after each entry it removes, and the k-th entry
\* removed in a step is the one that was stored under key ts + k.
C1_TsAdvancesByOne ==
    [][LET moves == events(calls', {"removed", "advance"})
           n == Len(events(calls', {"advance"}))
       IN /\ ts' >= ts
          /\ ~panicked' => ts' = ts + n
          /\ Len(moves) = 2 * n
          /\ \A i \in 1..n :
                /\ moves[2 * i - 1].ev = "removed"
                /\ moves[2 * i - 1].key = ts + i
                /\ moves[2 * i].ev = "advance"
                /\ moves[2 * i].from = ts + i - 1
                /\ ~panicked' => buffered_transactions'[ts + i] = Absent]_vars

\* a step in which apply_transactions consumed two entries
C1_Witness == Len(events(calls, {"advance"})) >= 2 /\ ts = InitTs + 3

\* C2: transactional_dispatch runs at most once for a timestamp, right after
\* the entry of that timestamp was removed, and the entries are removed in
\* the order InitTs + 1, InitTs + 2, ... without a gap.
C2_DispatchOnceInOrder ==
    /\ \A t \in Timestamps : dispatched[t] <= 1
    /\ \A i \in 1..Len(applied) : applied[i] = InitTs + i
    /\ \A i \in 1..Len(calls) :
          calls[i].ev = "transactional_dispatch" =>
             /\ i > 1
             /\ calls[i - 1].ev = "removed"
             /\ calls[i - 1].kind = "Transaction"
             /\ calls[i - 1].key = calls[i].ts
             /\ \E j \in 1..Len(applied) : applied[j] = calls[i].ts

\* two transactions dispatched in one pass: the fragments of the later one
\* had arrived first
C2_Witness ==
    /\ Len(events(calls, {"transactional_dispatch"})) = 2
    /\ dispatched[1] = 1 /\ dispatched[2] = 1

releases(log) == SelectSeq(log, LAMBDA c : c.ev = "removed" /\ c.kind = "Transaction")

\* C3 as claimed: a Transaction is released with exactly ingress_from_base[base]
\* messages.
C3_ReleasedWithExactlyTheCount ==
    \A i \in 1..Len(releases(calls)) : releases(calls)[i].len = releases(calls)[i].need

\* C3 as amended: a Transaction is released with at least
\* ingress_from_base[base] messages, never with fewer.
C3_ReleasedWithAtLeastTheCount ==
    \A i \in 1..Len(releases(calls)) : releases(calls)[i].len >= releases(calls)[i].need

\* a transaction of two fragments released when the second arrived
C3_Witness ==
    \E i \in 1..Len(releases(calls)) :
        releases(calls)[i].len = 2 /\ releases(calls)[i].need = 2

\* the worker takes the live message m
Arrives(m) == idle /\ Becomes(live_message(Self, m)) /\ UNCHANGED rx

\* the transaction buffer holds the entry e under key t and nothing else
Only(t, e) == buffered_transactions = [k \in Timestamps |-> IF k = t THEN e ELSE Absent]
NoEntry == \A k \in Timestamps : buffered_transactions[k] = Absent

CountsAB == ("A" :> 2) @@ ("B" :> 1)

dispatches(log) == events(log, {"transactional_dispatch"})

\* C7 as claimed: with ts = 0 and counts {A: 2, B: 1}, of the messages
\* M(A), M(B), M(A) for timestamp 1 the first two are held without a dispatch
\* and the third is dispatched with them, after which ts = 1 and the buffer
\* holds nothing for timestamp 1.
C7_ReleasedByTheThird ==
    [][/\ (ts = 0 /\ ingress_from_base = CountsAB /\ NoEntry /\ Arrives(Fragment(1, "A")))
            => (ts' = 0 /\ dispatches(calls') = <<>>)
       /\ (/\ ts = 0 /\ ingress_from_base = CountsAB
           /\ Only(1, Transaction("A", <<Fragment(1, "A")>>))
           /\ Arrives(Fragment(1, "B")))
            => (ts' = 0 /\ dispatches(calls') = <<>>)
       /\ (/\ ts = 0 /\ ingress_from_base = CountsAB
           /\ Only(1, Transaction("A", <<Fragment(1, "A"), Fragment(1, "B")>>))
           /\ Arrives(Fragment(1, "A")))
            => (/\ ts' = 1 /\ Len(dispatches(calls')) = 1
                /\ buffered_transactions'[1] = Absent)]_vars

\* C7 as amended: the first message is held; the second, though it names
\* base B, joins the entry made for base A, which then has the 2 messages
\* that A needs: that step runs the one dispatch and makes ts 1; the third
\* message makes a new entry for timestamp 1, which stays in the buffer.
C7_ReleasedByTheSecond ==
    [][/\ (ts = 0 /\ ingress_from_base = CountsAB /\ NoEntry /\ Arrives(Fragment(1, "A")))
            => (/\ ts' = 0 /\ dispatches(calls') = <<>>
                /\ buffered_transactions'[1] = Transaction("A", <<Fragment(1, "A")>>))
       /\ (/\ ts = 0 /\ ingress_from_base = CountsAB
           /\ Only(1, Transaction("A", <<Fragment(1, "A")>>))
           /\ Arrives(Fragment(1, "B")))
            => (/\ ts' = 1 /\ Len(dispatches(calls')) = 1
                /\ dispatches(calls')[1].ts = 1
                /\ dispatches(calls')[1].bases = <<"A", "B">>
                /\ dispatched'[1] = 1
                /\ buffered_transactions'[1] = Absent)
       /\ (/\ ts = 1 /\ ingress_from_base = CountsAB /\ NoEntry /\ dispatched[1] = 1
           /\ Arrives(Fragment(1, "A")))
            => (/\ ts' = 1 /\ dispatches(calls') = <<>>
                /\ dispatched'[1] = 1
                /\ buffered_transactions'[1] = Transaction("A", <<Fragment(1, "A")>>))]_vars

\* the second message, of base B, has released the transaction of base A
C7_Witness ==
    /\ ts = 1 /\ ingress_from_base = CountsAB /\ NoEntry
    /\ Len(dispatches(calls)) = 1
    /\ dispatches(calls)[1].bases = <<"A", "B">>

\* C8: a MigrationStart put under a timestamp beyond ts + 1 is held and
\* leaves ts alone; its ack is sent once, in the pass of apply_transactions
\* that first removed every entry from ts + 1 up to it, and that pass leaves
\* ts at its timestamp or beyond; no MigrationStart is left under ts + 1.
C8_MigrationStartInOrder ==
    [][/\ \A t \in Timestamps :
            (/\ idle /\ t > ts + 1 /\ acks[t] = 0 /\ buffered_transactions[t] = Absent
             /\ Becomes(start_migration(Self, t, t)))
               => (/\ ts' = ts /\ acks' = acks /\ calls' = <<>>
                   /\ buffered_transactions'[t] = MigrationStart(t))
       /\ \A t \in Timestamps : acks'[t] <= 1
       /\ \A t \in Timestamps :
            acks'[t] > acks[t] =>
               LET removed == events(calls', {"removed"})
                   n == t - ts
               IN /\ t > ts
                  /\ Len(removed) >= n
                  /\ \A i \in 1..n : removed[i].key = ts + i
                  /\ removed[n].kind = "MigrationStart"
                  /\ \E i \in 2..Len(calls') :
                        /\ calls'[i] = [ev |-> "ack", channel |-> t]
                        /\ calls'[i - 1] = removed[n]
                  /\ Cardinality({i \in 1..Len(calls') :
                                    calls'[i] = [ev |-> "ack", channel |-> t]}) = 1
                  /\ \A k \in (InitTs + 1)..t : \E j \in 1..Len(applied') : applied'[j] = k
                  /\ ~panicked' => ts' >= t
                  /\ (~panicked' /\ (t + 1 \in Timestamps => buffered_transactions[t + 1] = Absent))
                        => ts' = t
       /\ (~panicked' /\ ts' + 1 \in Timestamps)
            => buffered_transactions'[ts' + 1].kind # "MigrationStart"]_vars

\* a transaction completed under ts + 1 while a MigrationStart waited under
\* ts + 2: one pass applied the transaction and then sent the ack
C8_Witness ==
    LET removed == events(calls, {"removed"})
    IN /\ Len(removed) = 2
       /\ removed[1].kind = "Transaction"
       /\ removed[2].kind = "MigrationStart"
       /\ acks[removed[2].key] = 1
       /\ ts = removed[2].key

processed(log, via) == SelectSeq(log, LAMBDA c : c.ev = "process" /\ c.via \in via)

\* C4: dispatch and the feeding of the outputs never call process of a node
\* that is not ready: the message is dropped there, and no child is reached
\* through it.
C4_NotReadyNotProcessed ==
    /\ \A i \in 1..Len(calls) :
          /\ (calls[i].ev = "process" /\ calls[i].via \in {"dispatch", "output"})
                => calls[i].node \notin not_ready
          /\ (calls[i].ev = "process" /\ calls[i].via = "dispatch" /\ calls[i].from # "ext")
                => /\ calls[i].from \notin not_ready
                   /\ \E j \in 1..(i - 1) :
                         calls[j].ev = "process" /\ calls[j].node = calls[i].from
    /\ \A n \in not_ready :
          /\ processed(calls, {"dispatch", "output"}) # <<>> =>
                \A i \in 1..Len(calls) : calls[i].ev = "process" => calls[i].from # n
          /\ \A i \in 1..Len(calls) :
                (calls[i].ev \in {"dropped", "skipped"}) => calls[i].node \in not_ready

\* an update was processed by n0 and dropped at its child n1, which is not
\* ready, and the ready n2 below n1 was not reached through it
C4_Witness ==
    /\ "n1" \in not_ready /\ "n2" \notin not_ready /\ "g" \notin not_ready
    /\ \E i \in 1..Len(calls) : calls[i].ev = "dropped" /\ calls[i].node = "n1"
    /\ \E i \in 1..Len(calls) :
          calls[i].ev = "process" /\ calls[i].node = "n2" /\ calls[i].from = "g"

\* the last Replay the worker has left had its sink in this domain
ReplayedToSink == replay.pc = "idle" /\ replay.nodes # <<>> /\ is_none(replay.tx)

reached(log, n) ==
    SelectSeq(log, LAMBDA c : c.ev = "process" /\ c.via = "dispatch" /\ c.node = n)

\* C5: whatever updates are sent before, during and after a Replay whose sink
\* is in the domain, the replay is not aborted, no update is processed by the
\* sink before replay_done(sink) has run, and once the worker has left the
\* replay no update is dropped or buffered on the path and the sink holds the
\* rows of the source: each update once, from the snapshot or from its own
\* dispatch after the replay.
C5_NoUpdateLostOrAhead ==
    /\ \A i \in 1..Len(calls) :
          calls[i].ev = "panic" => calls[i].why \notin {"target is not node",
                                                        "buffered is not empty"}
    /\ \A n \in Nodes :
          reached(calls, n) # <<>> =>
              /\ n \notin not_ready
              /\ replaying_to = None
              /\ replay.pc = "idle"
    /\ ReplayedToSink =>
          /\ \A i \in 1..Len(calls) :
                 calls[i].ev \in {"dropped", "buffered"} =>
                     calls[i].node \notin {replay.nodes[j] : j \in 1..Len(replay.nodes)}
          /\ replay.nodes[1] \in DOMAIN state =>
                 state[Last(replay.nodes)].rows = state[replay.nodes[1]].rows

\* the state of n0 was replayed to n2 in two chunks while an update was sent, and
\* the worker has then dispatched that update to n2
C5_Witness ==
    /\ ReplayedToSink
    /\ replay.during > 0
    /\ rx = <<>>
    /\ reached(calls, "n2") # <<>>
    /\ count_rows(state["n2"], DOMAIN state["n2"].rows) = ChunkSize + 2

\* C9: Replay([n0], Some(tx), ack) on a materialized n0 sends () on ack and then
\* one batch on tx, Full(n0, S') with the rows and the key of the state of n0,
\* and leaves the states, the not-ready set, the replay cursor, the transaction
\* buffer and ts as they were.
C9_SingleNodeReplay ==
    [][LET c == events(calls', {"replay"}) IN
       (c # <<>> /\ Len(c[1].nodes) = 1 /\ is_some(c[1].tx)
            /\ c[1].nodes[1] \in DOMAIN state)
       => /\ Len(replay_sent') = 2
          /\ replay_sent'[1] = Ack
          /\ replay_sent'[2].kind = "Full"
          /\ replay_sent'[2].node = c[1].nodes[1]
          /\ replay_sent'[2].state.rows = state[c[1].nodes[1]].rows
          /\ replay_sent'[2].state.pkey = state[c[1].nodes[1]].pkey
          /\ ~panicked'
          /\ UNCHANGED <<state, not_ready, replaying_to, buffered_transactions, ts>>]_vars

\* the state of n0, with rows under two keys, has been sent as one Full batch
C9_Witness ==
    /\ events(calls, {"replay"}) # <<>>
    /\ replay.nodes = <<"n0">>
    /\ Len(replay_sent) = 2
    /\ replay_sent[2].kind = "Full"
    /\ Cardinality(DOMAIN replay_sent[2].state.rows) = 2

RECURSIVE count_after(_, _, _)
\* how often the row r is held after the records of data, in order, when it
\* was held n times before
count_after(n, data, r) ==
    IF data = <<>> THEN n
    ELSE count_after(IF Head(data).row # r THEN n
                     ELSE IF Head(data).pos THEN n + 1
                     ELSE IF n > 0 THEN n - 1 ELSE 0,
                     Tail(data), r)

\* how often the state s holds the row r
held(s, r) == Len(SelectSeq(rows_at(s, key_of(s, r)), LAMBDA x : x = r))

\* C6: in a ReplayThrough with the single node n0, a batch Full(_, s) whose
\* primary key is that of the state of n0 leaves s as the state of n0, ends the
\* loop over rx and makes n0 ready; with another primary key the domain
\* aborts; a batch Partial(m) inserts the Positive and removes the Negative rows
\* of m.data in their order.
C6_ReplayThroughSingleNode ==
    [][LET b == events(calls', {"batch"})
           n == replay.nodes[1]
       IN (replay.pc = "through" /\ b # <<>>) =>
          /\ Len(b) = 1
          /\ (b[1].batch.kind = "Full" /\ b[1].batch.state.pkey = state[n].pkey) =>
                /\ ~panicked'
                /\ state'[n] = b[1].batch.state
                /\ replay'.pc = "idle"
                /\ n \notin not_ready'
                /\ replaying_to' = None
          /\ (b[1].batch.kind = "Full" /\ b[1].batch.state.pkey # state[n].pkey) =>
                /\ panicked'
                /\ state' = state
          /\ b[1].batch.kind = "Partial" =>
                /\ ~panicked'
                /\ replay'.pc = "through"
                /\ state'[n].pkey = state[n].pkey
                /\ \A r \in Rows :
                      held(state'[n], r) = count_after(held(state[n], r), b[1].batch.m.data, r)]_vars

\* after Partial batches had put rows into the state of n0, a Full batch has
\* replaced it by a state without rows, and n0 is ready
C6_Witness ==
    /\ replay.pc = "idle"
    /\ replay.nodes = <<"n0">>
    /\ \E i \in 1..Len(calls) :
          /\ calls[i].ev = "batch"
          /\ calls[i].batch.kind = "Full"
          /\ calls[i].batch.state.rows = EmptyMap
    /\ state["n0"].rows = EmptyMap
    /\ "n0" \notin not_ready
    /\ ~panicked

\* the first event of kind k in the log is the i-th
position(log, k) ==
    IF events(log, {k}) = <<>> THEN 0
    ELSE CHOOSE i \in 1..Len(log) : log[i].ev = k /\ \A j \in 1..(i - 1) : log[j].ev # k

\* C11: a message with a token for which the checktable returns Committed(i)
\* is answered with Committed(i) first; unless the handler aborts, it is then
\* held under key i as the last message of a Transaction entry, with ts
\* (i, global index of the first child of m.to), without its token and with
\* its data, or that entry has been released in the same step; and no node
\* processes it but under a transactional_dispatch.
C11_CommittedIsBuffered ==
    [][LET r == events(calls', {"reply"}) IN
       (r # <<>> /\ r[1].result.kind = "Committed" /\ ~panicked') =>
           LET i == r[1].result.ts
               base_node == GlobalIndex[nodes[r[1].m.to].children[1]]
               tagged == [r[1].m EXCEPT !.ts = Some(<<i, base_node>>), !.token = None]
               before == IF buffered_transactions[i].kind = "Transaction"
                         THEN buffered_transactions[i].messages ELSE <<>>
               released == SelectSeq(calls', LAMBDA c :
                               c.ev = "transactional_dispatch" /\ c.ts = i)
           IN /\ Len(r) = 1
              /\ calls'[1] = r[1]
              /\ \/ /\ released = <<>>
                    /\ buffered_transactions'[i].kind = "Transaction"
                    /\ buffered_transactions'[i].messages = Append(before, tagged)
                 \/ /\ Len(released) = 1
                    /\ i = ts + 1
                    /\ buffered_transactions'[i] = Absent
                    /\ Len(released[1].bases) = Len(before) + 1
                    /\ Last(released[1].bases) = base_node
              /\ \A k \in 1..Len(calls') :
                    calls'[k].ev = "process" =>
                        /\ is_some(calls'[k].ts)
                        /\ position(calls', "transactional_dispatch") \in 1..(k - 1)]_vars

\* a committed message has been answered, released at once as timestamp ts + 1
\* and processed by the ready n0 under transactional_dispatch
C11_Witness ==
    /\ events(calls, {"reply"}) # <<>>
    /\ calls[1].result.kind = "Committed"
    /\ events(calls, {"transactional_dispatch"}) # <<>>
    /\ \E k \in 1..Len(calls) : calls[k].ev = "process" /\ calls[k].node = "n0"
    /\ ~panicked

\* C12: a message with a token for which the checktable returns Aborted is
\* answered with Aborted and nothing else is done with it: ts, the transaction
\* buffer, the states, the not-ready set and the replay cursor stay as they
\* are, and the worker is back in its select, whether or not the answer was
\* received.
C12_AbortedIsDropped ==
    [][LET r == events(calls', {"reply"}) IN
       (r # <<>> /\ r[1].result.kind = "Aborted") =>
           /\ calls' = <<r[1]>>
           /\ ~panicked'
           /\ worker_idle(replay')
           /\ UNCHANGED <<ts, buffered_transactions, state, not_ready, replaying_to,
                          ingress_from_base, dispatched, applied>>]_vars

\* the answer Aborted was sent to a receiver that is gone, and the worker goes on
C12_Witness ==
    /\ calls = <<[ev |-> "reply", result |-> Aborted, m |-> TokenUpdate(<<"b", "y">>),
                 received |-> FALSE]>>
    /\ ~panicked
    /\ worker_idle(replay)
    /\ ts > InitTs

-----------------------------------------------------------------------------
\* the worker thread has returned from its closure
returned == replay.pc = "returned"

-----------------------------------------------------------------------------
\* the keys of the buffer that hold an entry
held_keys == {t \in Timestamps : buffered_transactions[t] # Absent}

\* C14: a key of the transaction buffer holds at most one entry.  For a key
\* that holds an entry, StartMigration, CompleteMigration and a timestamp
\* announcement abort the domain, and so does a transactional message when
\* the entry is not a Transaction; the entry of a key is never replaced by
\* another: it only takes one more fragment, or is removed when it is applied.
C14_OneEntryPerKey ==
    /\ [](~panicked =>
            \A t \in held_keys :
               /\ \A u \in Timestamps : start_migration(Self, t, u).panicked
               /\ \A c \in CountMaps : complete_migration(Self, t, c).panicked
               /\ remote_transaction(Self, t).panicked
               /\ buffered_transactions[t].kind # "Transaction" =>
                      \A b \in Bases : live_message(Self, Fragment(t, b)).panicked)
    /\ [][\A t \in held_keys :
           LET e == buffered_transactions[t] IN
              \/ buffered_transactions'[t] = e
              \/ buffered_transactions'[t] = Absent /\ ts' >= t
              \/ /\ e.kind = "Transaction"
                 /\ \E b \in Bases : buffered_transactions'[t] =
                        Transaction(e.base, Append(e.messages, Fragment(t, b)))]_vars

\* a timestamp is announced for a key that holds the first fragment of a
\* transaction that needs two: the worker has aborted
C14_Witness ==
    /\ panicked
    /\ calls = <<[ev |-> "panic", why |-> "o is not none"]>>
    /\ \E t \in held_keys :
          /\ buffered_transactions[t].kind = "Transaction"
          /\ Len(buffered_transactions[t].messages) = 1
          /\ buffered_transactions[t].base \in DOMAIN ingress_from_base
          /\ ingress_from_base[buffered_transactions[t].base] = 2
          /\ remote_transaction([Self EXCEPT !.panicked = FALSE], t).panicked

-----------------------------------------------------------------------------
\* ingress_from_base changes only in a step that removes a MigrationEnd
\* entry from the buffer, and it becomes the counts of that entry
OnlyMigrationEndInstalls ==
    ingress_from_base' # ingress_from_base =>
        LET ends == SelectSeq(events(calls', {"removed"}), LAMBDA c : c.kind = "MigrationEnd")
        IN /\ Len(ends) = 1
           /\ ends[1].key = ts + 1
           /\ ingress_from_base' \in CountMaps

\* what CompleteMigration(t, c) does when t is the next timestamp: the entry
\* is consumed within the command and c is installed, so that the
\* transactions released after it in the same command are completed against c
InstalledAtOnce(t, c) ==
    LET d == complete_migration(Self, t, c)
        rel == events(d.calls, {"removed"})
    IN /\ d.ingress_from_base = c
       /\ d.buffered_transactions[t] = Absent
       /\ d.ts >= t
       /\ rel # <<>> /\ rel[1].kind = "MigrationEnd" /\ rel[1].key = t
       /\ \A i \in 2..Len(rel) :
              /\ rel[i].kind # "MigrationEnd"
              /\ rel[i].kind = "Transaction" => rel[i].len >= rel[i].need
       /\ \A i \in 2..Len(rel) : rel[i].kind = "Transaction" =>
              \E b \in DOMAIN c : rel[i].need = c[b]

\* C15 as stated: CompleteMigration(t, c) for a free key t puts MigrationEnd(c)
\* under t, applies it at once when t is ts + 1 and holds it otherwise, and
\* ingress_from_base is replaced only when that entry is consumed.
C15_HeldUntilReached ==
    /\ [](~panicked =>
            \A t \in Timestamps \ held_keys, c \in CountMaps :
               IF t = ts + 1 THEN InstalledAtOnce(t, c)
               ELSE LET d == complete_migration(Self, t, c)
                    IN /\ ~d.panicked
                       /\ d.buffered_transactions[t] = MigrationEnd(c)
                       /\ d.ingress_from_base = ingress_from_base)
    /\ [][OnlyMigrationEndInstalls]_vars

\* C15, amended: CompleteMigration(t, c) for a free key t installs c at once
\* when t is ts + 1 and aborts the domain otherwise, so that no MigrationEnd
\* entry is ever held in the buffer; ingress_from_base is replaced only when
\* such an entry is consumed.
C15_InstalledAtOnceOrFatal ==
    /\ [](~panicked =>
            \A t \in Timestamps \ held_keys, c \in CountMaps :
               IF t = ts + 1 THEN InstalledAtOnce(t, c)
               ELSE LET d == complete_migration(Self, t, c)
                    IN /\ d.panicked
                       /\ d.calls[Len(d.calls)] =
                             [ev |-> "panic", why |-> "ts is not self.ts + 1"])
    /\ [](\A t \in Timestamps : buffered_transactions[t].kind # "MigrationEnd")
    /\ [][OnlyMigrationEndInstalls]_vars

\* a CompleteMigration has installed new counts over older ones and a
\* transaction held for the timestamp after it was released against them
C15_Witness ==
    /\ ~panicked
    /\ ts = 2
    /\ ingress_from_base = ("A" :> 1)
    /\ Len(events(calls, {"removed"})) = 2
    /\ events(calls, {"removed"})[1].kind = "MigrationEnd"
    /\ events(calls, {"removed"})[1].key = 1
    /\ events(calls, {"removed"})[2] =
          [ev |-> "removed", key |-> 2, kind |-> "Transaction", len |-> 1, need |-> 1]

-----------------------------------------------------------------------------
\* the part of a log that belongs to its k-th transactional_dispatch
segment(log, k) ==
    LET at == [j \in 1..Len(dispatches(log)) |->
                  CHOOSE i \in 1..Len(log) :
                      /\ log[i].ev = "transactional_dispatch"
                      /\ Len(dispatches(SubSeq(log, 1, i))) = j]
    IN SubSeq(log, at[k], IF k < Len(at) THEN at[k + 1] - 1 ELSE Len(log))

\* the nodes that have n among their children
parents(n) == {p \in DOMAIN nodes : \E i \in 1..Len(nodes[p].children) : nodes[p].children[i] = n}

\* what the node of a process call of a transaction hands to its children
emitted(c) ==
    LET u == process_result(nodes[c.node].op, [data |-> c.data, ts |-> c.ts])
    IN IF is_some(u) THEN unwrap(u).data ELSE <<>>

\* everything that reached the output n in a segment, in the order of arrival
RECURSIVE collected(_, _)
collected(seg, n) ==
    IF seg = <<>> THEN <<>>
    ELSE (IF Head(seg).ev = "process" /\ Head(seg).via = "dispatch"
             /\ Head(seg).node \in parents(n)
          THEN emitted(Head(seg)) ELSE <<>>) \o collected(Tail(seg), n)

\* the output n is fed once in the segment, after the dispatch of the
\* fragments, with all that was collected for it
FedOnce(seg, n) ==
    LET mine == SelectSeq(seg, LAMBDA c : c.ev = "process" /\ c.node = n) IN
    /\ Len(mine) = 1
    /\ mine[1].via = "output"
    /\ mine[1].ts = Some(<<seg[1].ts, seg[1].bases[1]>>)
    /\ mine[1].data = collected(seg, n)
    /\ \A i, j \in 1..Len(seg) :
           (/\ seg[i].ev = "process" /\ seg[i].via = "dispatch"
            /\ seg[j].ev = "process" /\ seg[j].node = n) => i < j

\* C16 as stated: for each released transaction every output node is processed
\* exactly once, with the timestamp of the transaction and the data merged
\* from all fragments and all paths, and not during the recursive dispatch.
C16_EveryOutputFedOnce ==
    [][\A k \in 1..Len(dispatches(calls')) :
          \A n \in {o \in DOMAIN nodes : nodes[o].output} :
             FedOnce(segment(calls', k), n)]_vars

\* C16, amended: the same for every output node that is not in the not-ready
\* set; an output node that is not ready is not processed at all for the
\* transaction.
C16_ReadyOutputFedOnce ==
    [][\A k \in 1..Len(dispatches(calls')) :
          \A n \in {o \in DOMAIN nodes : nodes[o].output} :
             IF n \in not_ready
             THEN SelectSeq(segment(calls', k), LAMBDA c : c.ev = "process" /\ c.node = n) = <<>>
             ELSE FedOnce(segment(calls', k), n)]_vars

\* a transaction of two fragments was released with every node ready: the
\* reader n2, reached through n1 and through g, was processed once with the
\* four records
C16_Witness ==
    /\ ~panicked
    /\ not_ready = {}
    /\ Len(dispatches(calls)) = 1
    /\ Len(dispatches(calls)[1].bases) = 2
    /\ Len(SelectSeq(calls, LAMBDA c : c.ev = "process" /\ c.node = "n2")) = 1
    /\ \E i \in 1..Len(calls) :
          /\ calls[i].ev = "process" /\ calls[i].node = "n2" /\ calls[i].via = "output"
          /\ Len(calls[i].data) = 4

-----------------------------------------------------------------------------
\* the replay_done calls of a log for the node n
done_for(log, n) == SelectSeq(log, LAMBDA c : c.ev = "replay_done" /\ c.node = n)

\* C17: every node that Domain::new is given, except a timestamp egress node,
\* and every node added by AddNode is in the not-ready set from then on; a
\* node leaves the set only through replay_done, called by a Ready command
\* for it or at the end of a Replay or ReplayThrough whose last node it is;
\* and only an AddNode for its address puts it into the set again.
C17_ReadinessLifecycle ==
    /\ not_ready = {n \in DOMAIN nodes : nodes[n].op # "timestamp_egress"}
    /\ [][/\ \A n \in DOMAIN nodes' :
               /\ n \notin DOMAIN nodes => n \in not_ready'
               /\ (n \in not_ready /\ n \notin not_ready') =>
                      /\ done_for(calls', n) # <<>>
                      /\ \/ worker_idle(replay) /\ worker_idle(replay') /\ Len(calls') = 1
                         \/ /\ replay.pc \in {"chunks", "through"}
                            /\ worker_idle(replay')
                            /\ n = Last(replay.nodes)
               /\ (n \notin not_ready /\ n \in not_ready') =>
                      calls' = <<[ev |-> "add_node", node |-> n]>>
          /\ \A i \in 1..Len(calls') :
               calls'[i].ev = "add_node" => calls'[i].node \in not_ready']_vars

\* the reader x was added and made ready by a Ready command; n2 was made
\* ready by the end of a replay to it and has just been added again
C17_Witness ==
    /\ ~panicked
    /\ "x" \in DOMAIN nodes
    /\ "x" \notin not_ready
    /\ replay = ReplayIdle(<<"n0", "n1", "n2">>, None, 0)
    /\ calls = <<[ev |-> "add_node", node |-> "n2"]>>
    /\ not_ready = {"n2"}

-----------------------------------------------------------------------------
\* C18: send of RequestUnboundedTx(reply) on a Remote sender delivers on reply
\* a Remote sender with the same domain, client, addresses and demux table and
\* with bounded = false and input = false, returns Ok(()) and calls no
\* transport; any other packet on a Remote sender goes through exactly one
\* transport, chosen by the flags; a failed send, of a transport or of a local
\* channel, is returned as Error::Unknown.
C18_SendContract ==
    last_send.called =>
        LET c == last_send
            self == c.self
        IN /\ ~c.panics
           /\ IF self.variant = "Remote"
              THEN IF c.packet.kind = "RequestUnboundedTx"
                   THEN /\ c.result = Ok
                        /\ c.on_reply = <<[self EXCEPT !.bounded = FALSE, !.input = FALSE]>>
                        /\ c.rpcs = <<>>
                   ELSE /\ Len(c.rpcs) = 1
                        /\ c.rpcs[1].domain = self.domain
                        /\ c.rpcs[1].transport =
                              (IF ~self.bounded THEN "recv_unbounded_packet"
                               ELSE IF self.input THEN "recv_input_packet"
                               ELSE "recv_packet")
                        /\ c.rpcs[1].packet.of = c.packet
                        /\ c.result = IF c.rpcs[1].ok THEN Ok ELSE Err("Unknown")
                        /\ c.on_reply = <<>>
              ELSE /\ c.rpcs = <<>>
                   /\ c.result = IF self.s.open THEN Ok ELSE Err("Unknown")
                   /\ c.into_local = IF self.s.open THEN <<c.packet>> ELSE <<>>

-----------------------------------------------------------------------------
\* process of the node of the call c has returned None
returns_none(c) ==
    c.ev = "process" /\ is_none(process_result(nodes[c.node].op, [data |-> c.data, ts |-> c.ts]))

\* the call at position j of the log is what the child n gets from the
\* node me: its process with no data and the timestamp mts, or the drop of
\* the message when it is not ready
Forwarded(log, j, me, n, mts) ==
    /\ log[j].ev \in {"process", "dropped", "skipped"}
    /\ log[j].node = n
    /\ \/ /\ log[j].ev = "process"
          /\ log[j].data = <<>>
          /\ log[j].ts = mts
          /\ log[j].from = (IF log[j].via = "output" THEN n ELSE me)
       \/ /\ log[j].ev \in {"dropped", "skipped"}
          /\ n \in not_ready

\* C19: a transaction without data is not cut short.  When process of a
\* ready node returns None for a message with a timestamp, every child of the
\* node still gets a message with no data and that timestamp, and so on down
\* the graph; when it returns None for a streaming message, no child gets
\* anything; and the release of a transaction moves ts to its timestamp,
\* data or not.
C19_EmptyTransactionTraverses ==
    [][/\ \A i \in 1..Len(calls') :
             (returns_none(calls'[i]) /\ calls'[i].via = "dispatch") =>
                 LET me == calls'[i].node
                     children == nodes[me].children
                 IN IF is_some(calls'[i].ts)
                    THEN \A k \in 1..Len(children) :
                            \E j \in (i + 1)..Len(calls') :
                                Forwarded(calls', j, me, children[k], calls'[i].ts)
                    ELSE \A j \in (i + 1)..Len(calls') :
                            calls'[j].ev \in {"process", "dropped", "buffered"} =>
                                calls'[j].from # me
       /\ \A i \in 1..Len(calls') :
             calls'[i].ev = "transactional_dispatch" =>
                 (panicked' \/ (ts < calls'[i].ts /\ ts' >= calls'[i].ts))]_vars

\* a transaction of one fragment without data was released with every node
\* ready: the filter g returned None, n1 below it and then the reader n2 were
\* processed with no data, and ts has advanced
C19_Witness ==
    /\ ~panicked
    /\ ts = 1
    /\ not_ready = {}
    /\ Len(calls) >= 6
    /\ \E i, j, k \in 1..Len(calls) :
          /\ i < j /\ j < k
          /\ calls[i].ev = "process" /\ calls[i].node = "g" /\ returns_none(calls[i])
          /\ calls[i].ts = Some(<<1, "A">>)
          /\ calls[j].ev = "process" /\ calls[j].node = "n1" /\ calls[j].data = <<>>
          /\ calls[j].ts = Some(<<1, "A">>)
          /\ calls[k].ev = "process" /\ calls[k].node = "n2" /\ calls[k].via = "output"
          /\ calls[k].data = <<>>
    /\ \E i \in 1..Len(calls) : calls[i] = [ev |-> "advance", from |-> 0]

-----------------------------------------------------------------------------
\* the nodes a message for n can reach: n and all below it
RECURSIVE below(_)
below(n) ==
    {n} \cup UNION {below(nodes[n].children[i]) : i \in 1..Len(nodes[n].children)}

\* C20: when dispatch is called with the cursor Some(target, buf) and a
\* message for target, the message is appended to buf, no process is called,
\* no child is reached and the map returned is empty, also when target is in
\* the not-ready set; a message for another node is handled at that node as
\* without the cursor, and wholly so when it cannot reach target.
C20_CursorBeforeReadiness ==
    [][(calls' # <<>> /\ calls'[1].ev = "dispatch" /\ is_some(replaying_to)) =>
          LET m == calls'[1].m
              target == unwrap(replaying_to).target
              buf == unwrap(replaying_to).buffered
              plain == dispatch_call([Self EXCEPT !.replaying_to = None], m,
                                     calls'[1].enable_output)
          IN IF m.to = target
             THEN /\ replaying_to' = Some([target |-> target, buffered |-> Append(buf, m)])
                  /\ calls' = <<calls'[1],
                                [ev |-> "buffered", node |-> target, from |-> m.from],
                                [ev |-> "returned", out |-> EmptyMap]>>
                  /\ UNCHANGED <<state, not_ready, nodes>>
             ELSE /\ calls'[2] = plain.calls[2]
                  /\ calls'[2].ev = (IF m.to \in not_ready THEN "dropped" ELSE "process")
                  /\ target \notin below(m.to) =>
                         /\ calls' = plain.calls
                         /\ replaying_to' = replaying_to]_vars

\* dispatch was called with a message for the target of the cursor, which is
\* in the not-ready set: the message is the second in the buffer
C20_Witness ==
    /\ is_some(replaying_to)
    /\ unwrap(replaying_to).target = "n2"
    /\ "n2" \in not_ready
    /\ Len(unwrap(replaying_to).buffered) = 2
    /\ Len(calls) = 3
    /\ calls[1].ev = "dispatch"
    /\ calls[1].m.to = "n2"
    /\ unwrap(replaying_to).buffered[2] = calls[1].m
    /\ calls[2] = [ev |-> "buffered", node |-> "n2", from |-> "ext"]

-----------------------------------------------------------------------------
\* the assertions of replay_done
replay_done_asserts == {"target is not node", "buffered is not empty"}

-----------------------------------------------------------------------------
\* the worker is or was in the loop over a BatchedIterator
batched == "it" \in DOMAIN replay

\* the index in taken of the Full batch the iterator has taken, or 0
full_taken ==
    IF \E k \in DOMAIN replay.taken : replay.taken[k].kind = "Full"
    THEN CHOOSE k \in DOMAIN replay.taken : replay.taken[k].kind = "Full"
    ELSE 0

\* the iterator has returned None
ended == replay.yielded # <<>> /\ is_none(Last(replay.yielded))

\* the messages yielded from the Full batch taken as the k-th batch
chunks_yielded(k) ==
    LET from_full == SubSeq(replay.yielded, k, Len(replay.yielded))
        some == SelectSeq(from_full, is_some)
    IN [i \in DOMAIN some |-> unwrap(some[i])]

\* how many of the messages hold the record r
RECURSIVE holding(_, _)
holding(msgs, r) ==
    IF msgs = <<>> THEN 0
    ELSE Len(SelectSeq(Head(msgs).data, LAMBDA q : q = r)) + holding(Tail(msgs), r)

\* the rows of the state s
rows_of(s) == UNION {{s.rows[k][i] : i \in DOMAIN s.rows[k]} : k \in DOMAIN s.rows}

\* C22: the messages that BatchedIterator yields for a Full(src, state) batch
\* partition the rows of state: each holds at most ChunkSize rows, all but
\* the last exactly ChunkSize, each has from = src, to = n0, ts = None and
\* token = None, no row is in two of them, and when the iterator has gone
\* through the state every row is in one of them.
C22_FullIsPartitioned ==
    (batched /\ full_taken # 0) =>
        LET full == replay.taken[full_taken]
            msgs == chunks_yielded(full_taken)
        IN /\ \A i \in DOMAIN msgs :
                 /\ msgs[i].from = full.node
                 /\ msgs[i].to = replay.nodes[1]
                 /\ msgs[i].ts = None
                 /\ msgs[i].token = None
                 /\ Len(msgs[i].data) <= ChunkSize
                 /\ i < Len(msgs) => Len(msgs[i].data) = ChunkSize
           /\ \A r \in rows_of(full.state) : holding(msgs, Positive(r)) <= 1
           /\ ended => \A r \in rows_of(full.state) : holding(msgs, Positive(r)) = 1

\* what holds of the code: as C22 but with rows dropped, and with none
\* dropped when the state holds no more rows than a chunk
C22_Check_FullInChunks ==
    (batched /\ full_taken # 0) =>
        LET full == replay.taken[full_taken]
            msgs == chunks_yielded(full_taken)
        IN /\ \A i \in DOMAIN msgs :
                 /\ msgs[i].from = full.node
                 /\ msgs[i].to = replay.nodes[1]
                 /\ msgs[i].ts = None
                 /\ msgs[i].token = None
                 /\ Len(msgs[i].data) <= ChunkSize
                 /\ i < Len(msgs) => Len(msgs[i].data) = ChunkSize
                 /\ \A j \in DOMAIN msgs[i].data :
                       /\ msgs[i].data[j].pos
                       /\ msgs[i].data[j].row \in rows_of(full.state)
           /\ \A r \in rows_of(full.state) : holding(msgs, Positive(r)) <= 1
           /\ (ended /\ Cardinality(rows_of(full.state)) <= ChunkSize) =>
                 \A r \in rows_of(full.state) : holding(msgs, Positive(r)) = 1

-----------------------------------------------------------------------------
\* the iterator has gone through the state of the Full batch it took
exhausted(self) ==
    /\ is_some(self.state_iter)
    /\ take_chunk(unwrap(self.state_iter), <<>>, <<>>).chunk = <<>>

\* the loop over the BatchedIterator has got an item in this step
Yields == batched /\ batched' /\ replay'.yielded # replay.yielded

\* C23: BatchedIterator returns None only when rx is closed and drained; it
\* takes the batches in the order in which they were sent and yields the
\* message of a Partial batch as it is; and when it has yielded all chunks of
\* a Full batch and rx holds a further batch, it takes that batch.
C23_ForwardsUntilClosed ==
    /\ []((batched /\ ended) => (replay.it.rx.closed /\ replay.it.rx.buf = <<>>))
    /\ [][Yields =>
            /\ replay'.taken \o replay'.it.rx.buf = replay.taken \o replay.it.rx.buf
            /\ (Len(replay'.taken) > Len(replay.taken)
                   /\ Last(replay'.taken).kind = "Partial") =>
                  Last(replay'.yielded) = Some(Last(replay'.taken).m)
            /\ (exhausted(replay.it) /\ replay.it.rx.buf # <<>>) =>
                  Len(replay'.taken) > Len(replay.taken)]_vars

\* what holds of the code: as C23 until a Full batch is taken; from then on
\* the iterator takes no batch and returns None when it has gone through the
\* state, whatever rx holds
C23_Check_ForwardsUntilFull ==
    /\ [](batched =>
            /\ ended => \/ replay.it.rx.closed /\ replay.it.rx.buf = <<>>
                        \/ full_taken # 0
            /\ full_taken # 0 => full_taken = Len(replay.taken)
            /\ \A k \in DOMAIN replay.taken :
                  replay.taken[k].kind = "Partial" =>
                     replay.yielded[k] = Some(replay.taken[k].m))
    /\ [][Yields =>
            /\ replay'.taken \o replay'.it.rx.buf = replay.taken \o replay.it.rx.buf
            /\ is_some(replay.it.state_iter) => replay'.taken = replay.taken
            /\ exhausted(replay.it) => is_none(Last(replay'.yielded))]_vars

-----------------------------------------------------------------------------
\* the worker is in the loop of a Replay or of a ReplayThrough with several nodes
in_replay == replay.pc \in {"chunks", "batched"}

\* the index in the path of the first node that processes a chunk: Replay
\* starts below the node whose state it replays
first_node == IF replay.pc = "chunks" THEN 2 ELSE 1

\* what the last of the process calls ps returned
last_result(ps) ==
    process_result(nodes[Last(ps).node].op, [data |-> Last(ps).data, ts |-> Last(ps).ts])

\* C24: a Replay or ReplayThrough with several nodes and without tx sets the
\* cursor to Some(last(nodes), []) before it processes a chunk, keeps it
\* through its loop, and when it ends last(nodes) alone has left the not-ready
\* set and the cursor is None.  With tx the cursor stays None and the
\* not-ready set as it was from the command to its end.  A chunk is processed
\* by the nodes of the path in order up to the first that returns None; with
\* tx, one Partial batch with the result of the last node is sent on tx, after
\* those sent before, when every node has processed it to a result, and
\* nothing is sent otherwise.
C24_PathReplay ==
    /\ [](/\ in_replay =>
                replaying_to = (IF is_none(replay.tx)
                                THEN Some([target |-> Last(replay.nodes), buffered |-> <<>>])
                                ELSE None)
          /\ replay.pc = "idle" => replaying_to = None)
    /\ [][/\ (replay.pc = "idle" /\ in_replay') =>
                /\ events(calls', {"process"}) = <<>>
                /\ not_ready' = not_ready
                /\ replay_sent' = <<Ack>>
          /\ (in_replay /\ in_replay') =>
                LET ps == events(calls', {"process"})
                    path == replay.nodes
                IN /\ not_ready' = not_ready
                   /\ \A i \in DOMAIN ps :
                         /\ first_node + i - 1 <= Len(path)
                         /\ ps[i].node = path[first_node + i - 1]
                         /\ ps[i].enable_output = FALSE
                         /\ i < Len(ps) =>
                               is_some(process_result(nodes[ps[i].node].op,
                                          [data |-> ps[i].data, ts |-> ps[i].ts]))
                   /\ replay_sent' =
                         IF /\ is_some(replay.tx)
                            /\ Len(ps) = Len(path) - first_node + 1
                            /\ is_some(last_result(ps))
                         THEN Append(replay_sent,
                                     Partial(Message(Last(path), Last(path),
                                                     unwrap(last_result(ps)).data, None, None)))
                         ELSE replay_sent
                   /\ (ps # <<>> /\ Len(ps) < Len(path) - first_node + 1) =>
                         is_none(last_result(ps))
          /\ (in_replay /\ replay'.pc = "idle") =>
                /\ replay_sent' = replay_sent
                /\ events(calls', {"process"}) = <<>>
                /\ not_ready' = (IF is_none(replay.tx) THEN not_ready \ {Last(replay.nodes)}
                                 ELSE not_ready)]_vars

\* Replay([n0, g], Some(tx), ack) has ended: of the two chunks of the state of
\* n0 the filter g returned None on one, one Partial batch followed the
\* acknowledgement, and g is still not ready
C24_Witness ==
    /\ ~panicked
    /\ replay.pc = "idle"
    /\ replay.nodes = <<"n0", "g">>
    /\ is_some(replay.tx)
    /\ ~batched
    /\ count_rows(state["n0"], DOMAIN state["n0"].rows) = ChunkSize + 2
    /\ Len(replay_sent) = 2
    /\ replay_sent[2].kind = "Partial"
    /\ "g" \in not_ready

-----------------------------------------------------------------------------
\* C25: whenever the worker is back in its select, the entry under ts + 1 is
\* absent or a Transaction that holds fewer messages than the ingress count
\* of its base: no entry that could be released stays at the head of the
\* buffer.
C25_NoStuckHead ==
    ~panicked =>
        LET e == entry(Self, ts + 1)
        IN \/ e = Absent
           \/ /\ e.kind = "Transaction"
              /\ e.base \in DOMAIN ingress_from_base
              /\ Len(e.messages) < ingress_from_base[e.base]

\* the last input released two entries, of which one at least had been
\* inserted ahead of its time, and left a Transaction that waits for a message
\* at the head
C25_Witness ==
    /\ ~panicked
    /\ Len(events(calls, {"removed"})) >= 2
    /\ entry(Self, ts + 1).kind = "Transaction"
    /\ Len(entry(Self, ts + 1).messages) = 1
    /\ ingress_from_base[entry(Self, ts + 1).base] = 2

-----------------------------------------------------------------------------
\* the bases that the messages name
bases_of(messages) == [i \in DOMAIN messages |-> unwrap(messages[i].ts)[2]]

\* the entry under t with the fragment m of timestamp t: what the buffer
\* holds for t once m has been pushed
with_fragment(t, m) ==
    IF buffered_transactions[t] = Absent THEN Transaction(unwrap(m.ts)[2], <<m>>)
    ELSE Transaction(buffered_transactions[t].base,
                     Append(buffered_transactions[t].messages, m))

\* C26: the base of a buffered Transaction is that of the first fragment that
\* arrived for its timestamp.  A fragment that arrives for a timestamp with
\* an entry is appended to it whatever base it names; at ts + 1 the entry is
\* released, with all its fragments in one dispatch, in the step in which
\* their number has reached the ingress count of that first base, and held
\* otherwise.  A fragment for a timestamp at or before ts makes, or joins, an
\* entry that no step applies and no step removes.
C26_ThresholdOfFirstBase ==
    /\ [](\A t \in Timestamps :
             buffered_transactions[t].kind = "Transaction" =>
                /\ buffered_transactions[t].messages # <<>>
                /\ buffered_transactions[t].base =
                       bases_of(buffered_transactions[t].messages)[1])
    /\ [][/\ \A t \in Timestamps, b \in Bases :
                (/\ buffered_transactions[t].kind \in {"Absent", "Transaction"}
                 /\ (buffered_transactions'[t] # buffered_transactions[t] \/ ts' # ts)
                 /\ ~panicked'
                 /\ Arrives(Fragment(t, b))) =>
                    LET e == with_fragment(t, Fragment(t, b))
                    IN IF t = ts + 1 /\ Len(e.messages) >= ingress_from_base[e.base]
                       THEN /\ events(calls', {"removed"})[1] =
                                  [ev |-> "removed", key |-> t, kind |-> "Transaction",
                                   len |-> Len(e.messages),
                                   need |-> ingress_from_base[e.base]]
                            /\ dispatches(calls')[1] =
                                  [ev |-> "transactional_dispatch", ts |-> t,
                                   bases |-> bases_of(e.messages)]
                            /\ buffered_transactions'[t] = Absent
                            /\ ts' >= t
                       ELSE /\ buffered_transactions'[t] = e
                            /\ events(calls', {"removed"}) = <<>>
                            /\ ts' = ts
          /\ \A t \in Timestamps :
                (t <= ts /\ buffered_transactions[t].kind = "Transaction" /\ ~panicked') =>
                    /\ buffered_transactions'[t].kind = "Transaction"
                    /\ buffered_transactions'[t].base = buffered_transactions[t].base
                    /\ Len(buffered_transactions'[t].messages) >=
                           Len(buffered_transactions[t].messages)
                    /\ \A i \in DOMAIN calls' :
                          calls'[i].ev \in {"removed", "transactional_dispatch"} =>
                             (IF calls'[i].ev = "removed" THEN calls'[i].key
                              ELSE calls'[i].ts) > t]_vars

\* a fragment of base A has made an entry under timestamp 0, which a
\* migration had consumed before, and a fragment of base B has joined it
C26_Witness ==
    /\ ~panicked
    /\ ts >= 0
    /\ applied # <<>>
    /\ applied[1] = 0
    /\ ingress_from_base = CountsAB
    /\ buffered_transactions[0].kind = "Transaction"
    /\ bases_of(buffered_transactions[0].messages) = <<"A", "B">>

-----------------------------------------------------------------------------
\* the failed lookup of ingress_from_base[&base]
no_count == [ev |-> "panic", why |-> "no ingress count for the base"]

\* the handler that made the domain d aborted on the lookup, and released
\* nothing of timestamp t before
aborted_at(d, t) ==
    /\ d.panicked
    /\ Last(d.calls) = no_count
    /\ \A i \in DOMAIN d.calls :
          /\ d.calls[i].ev = "removed" => d.calls[i].key < t
          /\ d.calls[i].ev = "transactional_dispatch" => d.calls[i].ts < t

\* C27: when the entry under ts + 1 is a Transaction whose base has no ingress
\* count, apply_transactions aborts the worker and neither holds nor releases
\* the entry: so does a fragment for ts + 1 that makes such an entry, and a
\* timestamp announcement that moves ts to just below an entry of that kind,
\* made ahead of its time.  While ingress_from_base is as constructed, empty,
\* every fragment for ts + 1 aborts the worker: no step leaves a Transaction
\* under ts + 1 or dispatches one.
C27_MissingBaseAborts ==
    /\ [](~panicked =>
            /\ \A b \in Bases :
                  (/\ ts + 1 \in Timestamps
                   /\ buffered_transactions[ts + 1] = Absent
                   /\ b \notin DOMAIN ingress_from_base) =>
                      aborted_at(live_message(Self, Fragment(ts + 1, b)), ts + 1)
            /\ (/\ ts + 2 \in Timestamps
                /\ buffered_transactions[ts + 1] = Absent
                /\ buffered_transactions[ts + 2].kind = "Transaction"
                /\ buffered_transactions[ts + 2].base \notin DOMAIN ingress_from_base) =>
                   aborted_at(remote_transaction(Self, ts + 1), ts + 2)
            /\ ingress_from_base = EmptyMap =>
                  \A b \in Bases :
                     ts + 1 \in Timestamps =>
                        live_message(Self, Fragment(ts + 1, b)).panicked)
    /\ [][(~panicked' /\ ingress_from_base' = EmptyMap) =>
             /\ dispatches(calls') = <<>>
             /\ ts' + 1 \in Timestamps =>
                   buffered_transactions'[ts' + 1].kind # "Transaction"]_vars

\* a fragment for ts + 1 has aborted the worker on the lookup: timestamps
\* have been consumed, a migration end has not
C27_Witness ==
    /\ panicked
    /\ calls # <<>>
    /\ Last(calls) = no_count
    /\ ingress_from_base = EmptyMap
    /\ applied # <<>>
    /\ Len(calls) = 1

====
